------------------------- MODULE NodeSessionProofs -------------------------
(***************************************************************************)
(* Proofs about NodeSession, for any number of sessions, any ports and any *)
(* configurations.                                                         *)
(***************************************************************************)
EXTENDS NodeSession, TLAPS

-----------------------------------------------------------------------------
(* What a plan decides. *)

Modes == {"anvilBinary", "anvilDocker", "legacyBinary", "legacyDocker",
          "forkBinary", "forkDocker", "invalid"}

Probes == [node : MaybePort, adapter : MaybePort]

LEMMA ModeType ==
  ASSUME NEW entry \in Entries, NEW c \in Configs, NEW probe \in Probes
  PROVE  /\ PlanOf(entry, c, probe).mode \in Modes
         /\ PlanOf(entry, c, probe).mode = ListenMode(ServerOptions(entry, c))
BY DEF PlanOf, ListenMode, Modes

LEMMA LaunchedFacts ==
  ASSUME NEW mode \in Modes
  PROVE  /\ Launched(mode) \subseteq Services
         /\ Containers(mode) \subseteq Launched(mode)
         /\ mode = "forkDocker" => "chopsticks" \notin Containers(mode)
         /\ mode = "forkDocker" => Launched(mode) = {"chopsticks", "adapter"}
BY DEF Modes, Launched, Containers, Services

\* A wrapped task launches one container and nothing else, or no container.
LEMMA WrapFacts ==
  ASSUME NEW c \in Configs, NEW probe \in Probes,
         NEW svc \in Containers(PlanOf("wrap", c, probe).mode)
  PROVE  Launched(PlanOf("wrap", c, probe).mode) = {svc}
BY ModeType DEF Entries, Configs, ServerOptions, ListenMode, Launched, Containers

CommandTypes ==
  [anvil : BOOLEAN, forking : BOOLEAN, rpcPort : MaybePort,
   adapterPort : MaybePort]

LEMMA CommandsType ==
  ASSUME NEW entry \in Entries, NEW c \in Configs, NEW probe \in Probes
  PROVE  CommandsFor(entry, c, probe) \in CommandTypes
<1>. USE DEF Entries, Configs, Probes, CommandTypes, TaskUsesAnvil, HasForking, CommandsFor, MaybePort
<1>1. CASE entry = "test"
  BY <1>1
<1>2. CASE entry = "node"
  BY <1>2
<1>3. CASE entry \in {"run", "wrap"}
  BY <1>3
<1>. QED BY <1>1, <1>2, <1>3

\* Every service object ends up with a port.
LEMMA PortType ==
  ASSUME NEW entry \in Entries, NEW c \in Configs, NEW probe \in Probes,
         NEW svc \in Services
  PROVE  PlanOf(entry, c, probe).port[svc] \in Ports
<1>. DEFINE commands == CommandsFor(entry, c, probe)
            args == ConstructCommandArgs(commands)
            useAnvil == ServerOptions(entry, c).useAnvil
<1>1. /\ args.substrate \in MaybePort /\ args.chopsticks \in MaybePort
      /\ args.adapter \in MaybePort
  BY CommandsType DEF CommandTypes, ConstructCommandArgs, AdapterFlag, MaybePort
<1>2. ServicePorts(args, useAnvil)[svc] \in Ports
  <2>. HIDE DEF args, useAnvil
  <2>. QED BY <1>1, PortAssumption DEF ServicePorts, OrElse, MaybePort, Services
<1>. QED BY <1>2 DEF PlanOf

\* The ports of a plan, service by service.
LEMMA PlanPorts ==
  ASSUME NEW entry, NEW c, NEW probe
  PROVE  LET args == ConstructCommandArgs(CommandsFor(entry, c, probe))
             port == PlanOf(entry, c, probe).port
         IN /\ port["substrate"] =
                 OrElse(args.substrate,
                        IF ServerOptions(entry, c).useAnvil
                        THEN AdapterStartPort ELSE NodeStartPort)
            /\ port["chopsticks"] = OrElse(args.chopsticks, NodeStartPort)
            /\ port["adapter"] = OrElse(args.adapter, AdapterStartPort)
<1>1. ASSUME NEW args, NEW useAnvil
      PROVE  LET port == ServicePorts(args, useAnvil)
             IN /\ port["substrate"] =
                     OrElse(args.substrate, IF useAnvil THEN AdapterStartPort
                                                        ELSE NodeStartPort)
                /\ port["chopsticks"] = OrElse(args.chopsticks, NodeStartPort)
                /\ port["adapter"] = OrElse(args.adapter, AdapterStartPort)
  BY DEF ServicePorts, Services
<1>. QED BY <1>1 DEF PlanOf

\* A test without anvil sends its tests to the port its adapter is given.
LEMMA TestAdapterPort ==
  ASSUME NEW c \in Configs, NEW probe \in Probes, probe.adapter \in Ports,
         ~TaskUsesAnvil(c)
  PROVE  /\ PlanOf("test", c, probe).port["adapter"] = probe.adapter
         /\ PlanOf("test", c, probe).network = probe.adapter
<1>1. LET commands == CommandsFor("test", c, probe)
      IN ~commands.anvil /\ commands.adapterPort = probe.adapter
  BY DEF CommandsFor
<1>2. ConstructCommandArgs(CommandsFor("test", c, probe)).adapter = probe.adapter
  BY <1>1 DEF ConstructCommandArgs, AdapterFlag
<1>3. PlanOf("test", c, probe).port["adapter"] = probe.adapter
  BY <1>2, PlanPorts, PortAssumption DEF OrElse
<1>. QED BY <1>3 DEF PlanOf

\* A test that found its ports and was not rejected gave each service a port
\* of its own.
LEMMA OwnPorts ==
  ASSUME NEW c \in Configs, NEW probe \in Probes,
         probe.node \in Ports, probe.adapter \in Ports,
         ~RejectsCommands(CommandsFor("test", c, probe)),
         c.forking # "disabled",
         NEW a \in Launched(PlanOf("test", c, probe).mode),
         NEW b \in Launched(PlanOf("test", c, probe).mode),
         PlanOf("test", c, probe).port[a] = PlanOf("test", c, probe).port[b]
  PROVE  a = b
<1>. DEFINE commands == CommandsFor("test", c, probe)
            o == ServerOptions("test", c)
<1>1. PlanOf("test", c, probe).mode = ListenMode(o)
  BY DEF PlanOf
<1>2. commands = [anvil |-> TaskUsesAnvil(c), forking |-> HasForking(c),
                  rpcPort |-> probe.node, adapterPort |-> probe.adapter]
  BY DEF CommandsFor
<1>3. o.useAnvil = TaskUsesAnvil(c) /\ o.isForking = IsForking(c)
  BY DEF ServerOptions
<1>4. CASE TaskUsesAnvil(c)
  <2>1. ListenMode(o) \in {"anvilBinary", "anvilDocker"}
    BY <1>3, <1>4 DEF ListenMode, TaskUsesAnvil, HasForking, IsForking, ServerOptions, Configs
  <2>. QED BY <1>1, <2>1 DEF Launched
<1>5. CASE ~TaskUsesAnvil(c)
  <2>1. probe.node # probe.adapter /\ probe.node # Unset /\ probe.adapter # Unset
    BY <1>2, <1>5, PortAssumption DEF RejectsCommands
  <2>2. Launched(ListenMode(o)) \subseteq
          {"adapter", IF HasForking(c) THEN "chopsticks" ELSE "substrate"}
    BY <1>3, <1>5 DEF Launched, ListenMode, HasForking, IsForking, Configs
  <2>3. ConstructCommandArgs(commands).adapter = probe.adapter
    BY <1>2, <1>5 DEF ConstructCommandArgs, AdapterFlag
  <2>4. CASE HasForking(c)
    <3>1. ConstructCommandArgs(commands).chopsticks = probe.node
      BY <1>2, <1>5, <2>4 DEF ConstructCommandArgs
    <3>2. /\ PlanOf("test", c, probe).port["chopsticks"] = probe.node
          /\ PlanOf("test", c, probe).port["adapter"] = probe.adapter
      BY <2>1, <2>3, <3>1, PlanPorts DEF OrElse
    <3>. QED BY <1>1, <2>1, <2>2, <2>4, <3>2
  <2>5. CASE ~HasForking(c)
    <3>1. ConstructCommandArgs(commands).substrate = probe.node
      BY <1>2, <1>5, <2>5 DEF ConstructCommandArgs
    <3>2. /\ PlanOf("test", c, probe).port["substrate"] = probe.node
          /\ PlanOf("test", c, probe).port["adapter"] = probe.adapter
      BY <2>1, <2>3, <3>1, PlanPorts DEF OrElse
    <3>. QED BY <1>1, <2>1, <2>2, <2>5, <3>2
  <2>. QED BY <2>4, <2>5
<1>. QED BY <1>4, <1>5

\* Whatever the task, the adapter is pointed at the node of its own plan,
\* unless that node was given the command line of chopsticks.
LEMMA OwnUpstream ==
  ASSUME NEW entry \in Entries, NEW c \in Configs, NEW probe \in Probes,
         NEW svc \in Launched(PlanOf(entry, c, probe).mode) \ {"adapter"},
         "adapter" \in Launched(PlanOf(entry, c, probe).mode),
         ~(/\ svc = "substrate"
           /\ PlanOf(entry, c, probe).mode = "legacyBinary"
           /\ CommandsFor(entry, c, probe).forking)
  PROVE  PlanOf(entry, c, probe).upstream = PlanOf(entry, c, probe).port[svc]
<1>. DEFINE commands == CommandsFor(entry, c, probe)
            o == ServerOptions(entry, c)
            mode == ListenMode(o)
            args == ConstructCommandArgs(commands)
<1>1. PlanOf(entry, c, probe).mode = mode
  BY DEF PlanOf
<1>2. mode \in {"legacyBinary", "legacyDocker", "forkBinary", "forkDocker"}
  BY <1>1, ModeType DEF Launched, Modes
<1>3. CASE mode = "legacyDocker"
  BY <1>1, <1>3 DEF PlanOf, Launched
<1>4. CASE mode = "forkDocker"
  BY <1>1, <1>4 DEF PlanOf, Launched
<1>5. CASE mode = "legacyBinary"
  <2>1. svc = "substrate" /\ ~commands.forking
    BY <1>1, <1>5 DEF Launched
  <2>2. ~o.useAnvil /\ o.nodePath
    BY <1>5 DEF ListenMode
  <2>3. entry \in {"test", "node"} /\ ~TaskUsesAnvil(c)
    BY <2>2 DEF ServerOptions
  <2>4. ~commands.anvil
    BY <2>3 DEF CommandsFor
  <2>5. args.substrate = commands.rpcPort
    BY <2>1, <2>4 DEF ConstructCommandArgs
  <2>6. args.upstream = OrElse(commands.rpcPort, NodeStartPort)
    BY <2>1, <2>4 DEF ConstructCommandArgs, UpstreamFlag
  <2>7. PlanOf(entry, c, probe).port["substrate"] = OrElse(args.substrate, NodeStartPort)
    BY <2>2, PlanPorts
  <2>8. PlanOf(entry, c, probe).upstream = args.upstream
    BY <1>5 DEF PlanOf
  <2>. QED BY <2>1, <2>5, <2>6, <2>7, <2>8
<1>6. CASE mode = "forkBinary"
  <2>1. svc = "chopsticks" /\ o.isForking
    BY <1>1, <1>6 DEF Launched, ListenMode
  <2>2. HasForking(c)
    BY <2>1 DEF ServerOptions, IsForking, HasForking
  <2>3. ~commands.anvil /\ commands.forking
    BY <2>2 DEF CommandsFor, TaskUsesAnvil, Entries
  <2>5. args.chopsticks = commands.rpcPort
    BY <2>3 DEF ConstructCommandArgs
  <2>6. args.upstream = OrElse(commands.rpcPort, NodeStartPort)
    BY <2>3 DEF ConstructCommandArgs, UpstreamFlag
  <2>7. PlanOf(entry, c, probe).port["chopsticks"] = OrElse(args.chopsticks, NodeStartPort)
    BY PlanPorts
  <2>8. PlanOf(entry, c, probe).upstream = args.upstream
    BY <1>6 DEF PlanOf
  <2>. QED BY <2>1, <2>5, <2>6, <2>7, <2>8
<1>. QED BY <1>2, <1>3, <1>4, <1>5, <1>6

-----------------------------------------------------------------------------
(* The inductive invariant. *)

Unlaunched == {"idle", "probeNode", "probeAdapter", "construct"}
Waited == {"pollNode", "pollAdapter", "setup", "working"}

AllAttached(s) == \A svc \in Launched(Mode(s)) : attached[s][svc]

FoundPorts(s) == probed[s].node \in Ports /\ probed[s].adapter \in Ports

\* Which task goes which way, and what its services are by then.
StageOf(s) ==
  /\ pc[s] \in Unlaunched => \A svc \in Services : child[s][svc] = "none"
  /\ pc[s] = "probeAdapter" => probed[s].node \in Ports
  /\ pc[s] = "construct" /\ Entry(s) # "node" => FoundPorts(s)
  /\ Entry(s) = "node" => pc[s] \in {"idle", "construct", "blocking", "settled"}
  /\ pc[s] = "blocking" => Entry(s) = "node"
  /\ pc[s] \in Waited \cup {"launching"} => Mode(s) # "invalid"
  /\ pc[s] = "launching" =>
       \A svc \in Launched(Mode(s)) : child[s][svc] # "none"
  /\ pc[s] \in Waited => AllAttached(s)
  /\ pc[s] = "stopping" /\ outcome[s] = "ok" => AllAttached(s)
  /\ pc[s] = "stopping" =>
       \A svc \in Services : child[s][svc] \notin {"clearing", "creating"}

Stages == \A s \in Sessions : StageOf(s)

\* What was launched was not rejected, and a task that searched found ports.
LaunchesAreValid ==
  \A s \in Sessions : Launches(s) # {} =>
    /\ Launches(s) \subseteq Launched(Mode(s))
    /\ ~RejectsCommands(Commands(s))
    /\ Entry(s) # "node" => FoundPorts(s)

\* Processes are attached at once, containers when they exist.
HandleOf(s, svc) ==
  /\ ~IsContainer(s, svc) =>
       /\ child[s][svc] \notin {"clearing", "creating"}
       /\ child[s][svc] # "none" => attached[s][svc]
  /\ IsContainer(s, svc) /\ child[s][svc] \in Alive => attached[s][svc]
  /\ IsContainer(s, svc) /\ attached[s][svc] =>
       child[s][svc] \in Alive \cup {"dead"}
  /\ attached[s][svc] => child[s][svc] # "none"

Handles == \A s \in Sessions, svc \in Services : HandleOf(s, svc)

\* A name belongs to the container that runs, ...
Names ==
  \A s \in Sessions, svc \in Services :
    nameOf[svc] = s <=> IsContainer(s, svc) /\ child[s][svc] \in Alive

\* ... and a port to the child that bound it, which a container does first.
Holds(s, svc) ==
  \/ child[s][svc] = "up"
  \/ child[s][svc] = "starting" /\ IsContainer(s, svc)

HolderOf(s, svc) ==
  /\ Holds(s, svc) => holder[Port(s, svc)] = <<s, svc>> /\ ~Misled(s, svc)
  /\ \A p \in Ports : holder[p] = <<s, svc>> => p = Port(s, svc) /\ Holds(s, svc)

Holders == \A s \in Sessions, svc \in Services : HolderOf(s, svc)

IInv == TypeOK /\ Stages /\ LaunchesAreValid /\ Handles /\ Names /\ Holders
               /\ StopLeavesNothing

\* With a single session, also: what was polled came up, or another program
\* answered; no other program answers for the adapter of a test; and as long as
\* no child died the adapter of a test that was polled stays where it is.
Answered(s, svc) ==
  child[s][svc] = "starting" /\ ~Misled(s, svc)
    => holder[Port(s, svc)] = Foreign

Polled ==
  \A s \in Sessions :
    /\ pc[s] \in {"pollAdapter", "setup", "working"} => Answered(s, "substrate")
    /\ pc[s] \in {"setup", "working"} /\ Plan(s).pollAdapter
         => Answered(s, "adapter")

NotForeign ==
  \A s \in Sessions :
    Entry(s) = "test" /\ probed[s].adapter \in Ports
      => holder[probed[s].adapter] # Foreign

ContainersLast ==
  \A s \in Sessions, svc \in Services :
    deaths = 0 /\ pc[s] \in Waited \cup {"launching"} /\ IsContainer(s, svc)
      => child[s][svc] # "dead"

OwnAdapterHolds ==
  \A s \in Sessions :
    pc[s] \in {"setup", "working"} /\ Plan(s).pollAdapter /\ deaths = 0
      => holder[Plan(s).network] = <<s, "adapter">>

AloneInv == IInv /\ Polled /\ NotForeign /\ ContainersLast /\ OwnAdapterHolds

-----------------------------------------------------------------------------
(* Every step keeps the invariant. *)

\* Nobody and Foreign are no child of a session.
LEMMA NoTuple ==
  \A s \in Sessions, svc \in Services : <<s, svc>> \notin {Nobody, Foreign}
BY SessionAssumption

LEMMA NoSession == \A s \in Sessions : s # Nobody
BY SessionAssumption

LEMMA InitInv == Init => IInv
<1>. SUFFICES ASSUME Init PROVE IInv
  OBVIOUS
<1>. USE SessionAssumption DEF Init
<1>1. TypeOK
  <2>1. holder \in [Ports -> {Nobody, Foreign} \cup (Sessions \X Services)]
    OBVIOUS
  <2>2. /\ attempts \in [Sessions -> 0 .. MaxAttempts]
        /\ deaths \in 0 .. MaxDeaths
    OBVIOUS
  <2>. QED BY <2>1, <2>2 DEF TypeOK, Labels, ChildStates, MaybePort
<1>2. Stages /\ LaunchesAreValid /\ Handles /\ StopLeavesNothing
  BY DEF Stages, StageOf, LaunchesAreValid, Handles, HandleOf, StopLeavesNothing, Waited,
     Unlaunched, Launches, Alive
<1>3. Names
  BY DEF Names, Alive
<1>4. Holders
  <2>1. \A p \in Ports : holder[p] \in {Nobody, Foreign}
    OBVIOUS
  <2>2. \A s \in Sessions, svc \in Services : ~Holds(s, svc)
    BY DEF Holds
  <2>. QED BY <2>1, <2>2, NoTuple DEF Holders, HolderOf
<1>. QED BY <1>1, <1>2, <1>3, <1>4 DEF IInv

\* The plan of a session is one of its request and what its searches found.
LEMMA PlanFacts ==
  ASSUME TypeOK, NEW s \in Sessions
  PROVE  /\ Entry(s) \in Entries /\ Config(s) \in Configs
         /\ probed[s] \in Probes
         /\ Mode(s) \in Modes
         /\ Launched(Mode(s)) \subseteq Services
         /\ Containers(Mode(s)) \subseteq Launched(Mode(s))
         /\ Awaited(s) \subseteq Launched(Mode(s))
         /\ \A svc \in Launched(Mode(s)) \ Awaited(s) : ~IsContainer(s, svc)
         /\ \A svc \in Services : Port(s, svc) \in Ports
         /\ \A svc \in Services : IsContainer(s, svc) => ~Misled(s, svc)
<1>1. Entry(s) \in Entries /\ Config(s) \in Configs /\ probed[s] \in Probes
  BY SessionAssumption DEF TypeOK, Entry, Config, Probes
<1>2. Mode(s) \in Modes
  BY <1>1, ModeType DEF Mode, Plan
<1>3. \A svc \in Services : Port(s, svc) \in Ports
  BY <1>1, PortType DEF Port, Plan
<1>4. \A svc \in Services : IsContainer(s, svc) => ~Misled(s, svc)
  BY DEF IsContainer, Misled, Containers
<1>. QED BY <1>1, <1>2, <1>3, <1>4, LaunchedFacts DEF Awaited, IsContainer

\* What holds of children, names and ports is not touched by a task that only
\* goes on.
LEMMA ChildrenUntouched ==
  ASSUME LaunchesAreValid /\ Handles /\ Names /\ Holders,
         UNCHANGED <<request, probed, childVars>>
  PROVE  (LaunchesAreValid /\ Handles /\ Names /\ Holders)'
<1>. USE DEF childVars, Plan, Commands, Mode, Port, IsContainer, Entry, Config
<1>1. LaunchesAreValid'
  BY DEF LaunchesAreValid, Launches, FoundPorts
<1>2. Handles' /\ Names'
  BY DEF Handles, HandleOf, Names
<1>3. Holders'
  BY DEF Holders, HolderOf, Holds, Misled
<1>. QED BY <1>1, <1>2, <1>3

\* When all services are attached, no container is still being created.
LEMMA NothingPending ==
  ASSUME IInv, NEW s \in Sessions, AllAttached(s)
  PROVE  \A svc \in Services : child[s][svc] \notin {"clearing", "creating"}
BY DEF IInv, TypeOK, LaunchesAreValid, Launches, Handles, HandleOf, AllAttached, Alive

\* The stage of a session depends on nothing of the others, and on the ports it
\* found only as long as it launches.
LEMMA StageUntouched ==
  ASSUME NEW s \in Sessions, StageOf(s),
         UNCHANGED <<request, pc[s], probed[s], outcome[s], child[s], attached[s]>>
  PROVE  StageOf(s)'
BY DEF StageOf, Entry, AllAttached, FoundPorts, Mode, Plan, Config

\* The labels a task may go to, and what must be there by then.
MayGo(s, label) ==
  /\ label \in {"probeNode", "probeAdapter", "construct"} \cup Waited
  /\ label \in Unlaunched => pc[s] \in Unlaunched
  /\ Entry(s) = "node" => label = "construct"

LEMMA GotoKeeps ==
  ASSUME IInv, NEW s \in Sessions, NEW label, Goto(s, label), MayGo(s, label),
         UNCHANGED <<request, childVars>>,
         \A t \in Sessions \ {s} : probed'[t] = probed[t],
         label = "probeAdapter" => probed'[s].node \in Ports,
         label = "construct" /\ Entry(s) # "node" => FoundPorts(s)',
         label \in Waited => AllAttached(s)' /\ Mode(s)' # "invalid"
  PROVE  (Stages /\ StopLeavesNothing)'
<1>1. ASSUME NEW t \in Sessions PROVE StageOf(t)'
  <2>1. CASE t # s
    BY <2>1, StageUntouched DEF IInv, TypeOK, Stages, childVars, Goto
  <2>2. CASE t = s
    BY <2>2 DEF IInv, TypeOK, Stages, StageOf, MayGo, childVars, Goto, Waited,
       Unlaunched, Entry
  <2>. QED BY <2>1, <2>2
<1>2. StopLeavesNothing'
  BY DEF IInv, TypeOK, StopLeavesNothing, Down, childVars, Goto, MayGo, Waited, Entry
<1>. QED BY <1>1, <1>2 DEF Stages

\* A task that ends before it stops anything, or goes to stop its services.
LEMMA SettleKeeps ==
  ASSUME IInv, NEW s \in Sessions, NEW result, Settle(s, result),
         UNCHANGED <<request, probed, childVars>>,
         \/ pc[s] \in Unlaunched
         \/ result = "failed" /\ Entry(s) # "wrap"
         \/ Entry(s) = "node"
  PROVE  (Stages /\ StopLeavesNothing)'
<1>1. ASSUME NEW t \in Sessions PROVE StageOf(t)'
  <2>1. CASE t # s
    BY <2>1, StageUntouched DEF IInv, TypeOK, Stages, childVars, Settle
  <2>2. CASE t = s
    BY <2>2 DEF IInv, TypeOK, Stages, StageOf, childVars, Settle, Waited,
       Unlaunched, Entry
  <2>. QED BY <2>1, <2>2
<1>2. StopLeavesNothing'
  BY DEF IInv, TypeOK, Stages, StageOf, StopLeavesNothing, Down, childVars, Settle, Entry, Entries
<1>. QED BY <1>1, <1>2 DEF Stages

LEMMA StoppingKeeps ==
  ASSUME IInv, NEW s \in Sessions, NEW result \in {"ok", "failed"},
         pc' = [pc EXCEPT ![s] = "stopping"],
         outcome' = [outcome EXCEPT ![s] = result],
         UNCHANGED <<request, probed, childVars>>,
         Entry(s) # "node",
         result = "ok" => AllAttached(s),
         \A svc \in Services : child[s][svc] \notin {"clearing", "creating"}
  PROVE  (Stages /\ StopLeavesNothing)'
<1>1. ASSUME NEW t \in Sessions PROVE StageOf(t)'
  <2>1. CASE t # s
    BY <2>1, StageUntouched DEF IInv, TypeOK, Stages, childVars
  <2>2. CASE t = s
    BY <2>2 DEF IInv, TypeOK, Stages, StageOf, childVars, Waited, AllAttached,
       Unlaunched, Entry, Mode, Plan, Config
  <2>. QED BY <2>1, <2>2
<1>2. StopLeavesNothing'
  BY DEF IInv, TypeOK, StopLeavesNothing, Down, childVars, Entry
<1>. QED BY <1>1, <1>2 DEF Stages

LEMMA FailEarlyKeeps ==
  ASSUME IInv, NEW s \in Sessions, FailEarly(s),
         UNCHANGED <<request, probed, childVars>>,
         Entry(s) = "wrap" =>
           \A svc \in Services : child[s][svc] \notin {"clearing", "creating"}
  PROVE  (Stages /\ StopLeavesNothing)'
BY SettleKeeps, StoppingKeeps DEF FailEarly

\* What a task does while its services stay as they are.
LEMMA BeginStep ==
  ASSUME IInv, NEW s \in Sessions, Begin(s)
  PROVE  IInv'
<1>. USE DEF IInv, Begin
<1>1. TypeOK'
  BY DEF TypeOK, Labels, Goto, childVars
<1>2. (LaunchesAreValid /\ Handles /\ Names /\ Holders)'
  BY ChildrenUntouched
<1>3. (Stages /\ StopLeavesNothing)'
  BY GotoKeeps DEF MayGo, Unlaunched, Waited
<1>. QED BY <1>1, <1>2, <1>3

\* A search for a port changes the plan of a session that launched nothing.
LEMMA ProbeUntouched ==
  ASSUME IInv, NEW s \in Sessions, pc[s] \in Unlaunched,
         UNCHANGED <<request, childVars>>,
         \A t \in Sessions \ {s} : probed'[t] = probed[t]
  PROVE  (LaunchesAreValid /\ Handles /\ Names /\ Holders)'
<1>. USE DEF IInv, childVars, Plan, Commands, Mode, Port, IsContainer, Entry, Config
<1>1. \A svc \in Services :
        /\ child[s][svc] = "none" /\ ~attached[s][svc] /\ nameOf[svc] # s
        /\ \A p \in Ports : holder[p] # <<s, svc>>
  BY DEF Stages, StageOf, Handles, HandleOf, Names, Holders, HolderOf, Holds, Alive
<1>2. LaunchesAreValid'
  BY <1>1 DEF LaunchesAreValid, Launches, FoundPorts
<1>3. Handles' /\ Names'
  BY <1>1 DEF Handles, HandleOf, Names, Alive
<1>4. Holders'
  BY <1>1 DEF Holders, HolderOf, Holds, Misled
<1>. QED BY <1>2, <1>3, <1>4

LEMMA ProbeNodeStep ==
  ASSUME IInv, NEW s \in Sessions, ProbeNode(s)
  PROVE  IInv'
<1>. USE DEF IInv, ProbeNode
<1>. DEFINE start == NodeSearchStart(Config(s))
<1>1. CASE FoundPort(s, start, "node", "probeAdapter")
  <2>. PICK p \in Ports :
         probed' = [probed EXCEPT ![s] = [probed[s] EXCEPT !.node = p]]
    BY <1>1 DEF FoundPort, IsFirst, Candidates, TypeOK
  <2>1. TypeOK'
    <3>1. probed' \in [Sessions -> [node : MaybePort, adapter : MaybePort]]
      BY DEF TypeOK, MaybePort
    <3>. QED BY <1>1, <3>1 DEF TypeOK, Labels, FoundPort, Goto, childVars
  <2>2. (LaunchesAreValid /\ Handles /\ Names /\ Holders)'
    BY ProbeUntouched DEF Unlaunched, TypeOK
  <2>3. (Stages /\ StopLeavesNothing)'
    <3>1. probed'[s].node = p /\ \A t \in Sessions \ {s} : probed'[t] = probed[t]
      BY DEF TypeOK
    <3>2. MayGo(s, "probeAdapter")
      BY DEF MayGo, Unlaunched, Waited, Stages, StageOf
    <3>. QED BY <1>1, <3>1, <3>2, GotoKeeps DEF FoundPort, Waited
  <2>. QED BY <2>1, <2>2, <2>3
<1>2. CASE NoPort(s, start)
  <2>1. TypeOK'
    BY <1>2 DEF TypeOK, Labels, NoPort, Settle, childVars
  <2>2. (LaunchesAreValid /\ Handles /\ Names /\ Holders)'
    BY <1>2, ChildrenUntouched DEF NoPort
  <2>3. (Stages /\ StopLeavesNothing)'
    BY <1>2, SettleKeeps DEF NoPort, Unlaunched
  <2>. QED BY <2>1, <2>2, <2>3
<1>. QED BY <1>1, <1>2

LEMMA ProbeAdapterStep ==
  ASSUME IInv, NEW s \in Sessions, ProbeAdapter(s)
  PROVE  IInv'
<1>. USE DEF IInv, ProbeAdapter
<1>. DEFINE start == AdapterSearchStart(Entry(s), Config(s))
<1>1. CASE FoundPort(s, start, "adapter", "construct")
  <2>. PICK p \in Ports :
         probed' = [probed EXCEPT ![s] = [probed[s] EXCEPT !.adapter = p]]
    BY <1>1 DEF FoundPort, IsFirst, Candidates, TypeOK
  <2>1. TypeOK'
    <3>1. probed' \in [Sessions -> [node : MaybePort, adapter : MaybePort]]
      BY DEF TypeOK, MaybePort
    <3>. QED BY <1>1, <3>1 DEF TypeOK, Labels, FoundPort, Goto, childVars
  <2>2. (LaunchesAreValid /\ Handles /\ Names /\ Holders)'
    BY ProbeUntouched DEF Unlaunched, TypeOK
  <2>3. (Stages /\ StopLeavesNothing)'
    <3>1. /\ FoundPorts(s)'
          /\ \A t \in Sessions \ {s} : probed'[t] = probed[t]
      BY DEF TypeOK, FoundPorts, Stages, StageOf
    <3>2. MayGo(s, "construct")
      BY DEF MayGo, Unlaunched, Waited, Stages, StageOf
    <3>. QED BY <1>1, <3>1, <3>2, GotoKeeps DEF FoundPort, Waited
  <2>. QED BY <2>1, <2>2, <2>3
<1>2. CASE NoPort(s, start)
  <2>1. TypeOK'
    BY <1>2 DEF TypeOK, Labels, NoPort, Settle, childVars
  <2>2. (LaunchesAreValid /\ Handles /\ Names /\ Holders)'
    BY <1>2, ChildrenUntouched DEF NoPort
  <2>3. (Stages /\ StopLeavesNothing)'
    BY <1>2, SettleKeeps DEF NoPort, Unlaunched
  <2>. QED BY <2>1, <2>2, <2>3
<1>. QED BY <1>1, <1>2

LEMMA RejectConfigStep ==
  ASSUME IInv, NEW s \in Sessions, RejectConfig(s)
  PROVE  IInv'
<1>. USE DEF IInv, RejectConfig
<1>1. TypeOK'
  BY DEF TypeOK, Labels, Settle, childVars
<1>2. (LaunchesAreValid /\ Handles /\ Names /\ Holders)'
  BY ChildrenUntouched
<1>3. (Stages /\ StopLeavesNothing)'
  BY SettleKeeps DEF Unlaunched
<1>. QED BY <1>1, <1>2, <1>3

LEMMA FailEarlyType ==
  ASSUME TypeOK, NEW s \in Sessions, FailEarly(s),
         UNCHANGED <<request, probed, childVars>>,
         attempts' \in [Sessions -> 0 .. MaxAttempts]
  PROVE  TypeOK'
BY DEF TypeOK, Labels, FailEarly, Settle, childVars

\* Launch: a wrapped task that fails here has no second service.
LEMMA LaunchStep ==
  ASSUME IInv, NEW s \in Sessions, Launch(s)
  PROVE  IInv'
<1>. USE DEF IInv, Launch
<1>1. (LaunchesAreValid /\ Handles /\ Names /\ Holders)'
  BY ChildrenUntouched
<1>2. CASE Goto(s, "pollNode") /\ \A svc \in Awaited(s) : attached[s][svc]
  <2>1. TypeOK'
    BY <1>2 DEF TypeOK, Labels, Goto, childVars
  <2>2. AllAttached(s)' /\ Mode(s)' # "invalid"
    <3>1. \A svc \in Launched(Mode(s)) : attached[s][svc]
      BY <1>2, PlanFacts DEF Stages, StageOf, Handles, HandleOf
    <3>2. Mode(s) # "invalid"
      BY DEF Stages, StageOf
    <3>. QED BY <3>1, <3>2 DEF AllAttached, Mode, Plan, Entry, Config, childVars
  <2>3. MayGo(s, "pollNode")
    BY DEF MayGo, Unlaunched, Waited, Stages, StageOf
  <2>4. (Stages /\ StopLeavesNothing)'
    BY <1>2, <2>2, <2>3, GotoKeeps DEF Waited
  <2>. QED BY <1>1, <2>1, <2>4
<1>3. CASE /\ FailEarly(s)
           /\ \E svc \in Awaited(s) :
                IsContainer(s, svc) /\ child[s][svc] = "failed"
  <2>1. TypeOK'
    BY <1>3, FailEarlyType DEF TypeOK
  <2>2. ASSUME Entry(s) = "wrap"
        PROVE  \A svc \in Services :
                 child[s][svc] \notin {"clearing", "creating"}
    <3>. PICK svc \in Awaited(s) : IsContainer(s, svc) /\ child[s][svc] = "failed"
      BY <1>3
    <3>1. Launched(Mode(s)) = {svc}
      BY <2>2, PlanFacts, WrapFacts DEF Mode, Plan, IsContainer
    <3>2. \A other \in Services \ {svc} : child[s][other] = "none"
      BY <3>1, PlanFacts DEF LaunchesAreValid, Launches
    <3>. QED BY <3>2
  <2>3. (Stages /\ StopLeavesNothing)'
    BY <1>3, <2>2, FailEarlyKeeps
  <2>. QED BY <1>1, <2>1, <2>3
<1>. QED BY <1>2, <1>3

\* A task that waited has all its services, and may fail or go on.
LEMMA WaitedKeeps ==
  ASSUME IInv, NEW s \in Sessions, pc[s] \in Waited,
         attempts' \in [Sessions -> 0 .. MaxAttempts],
         UNCHANGED <<request, probed, childVars>>,
         \/ \E label \in Waited : Goto(s, label)
         \/ UNCHANGED <<pc, outcome>>
         \/ FailEarly(s)
  PROVE  IInv'
<1>. USE DEF IInv
<1>1. (LaunchesAreValid /\ Handles /\ Names /\ Holders)'
  BY ChildrenUntouched
<1>2. AllAttached(s) /\ Mode(s) # "invalid"
  BY DEF Stages, StageOf
<1>3. CASE \E label \in Waited : Goto(s, label)
  <2>. PICK label \in Waited : Goto(s, label)
    BY <1>3
  <2>1. TypeOK'
    BY DEF TypeOK, Labels, Goto, childVars, Waited
  <2>2. AllAttached(s)' /\ Mode(s)' # "invalid"
    BY <1>2 DEF AllAttached, Mode, Plan, Entry, Config, childVars
  <2>3. MayGo(s, label)
    BY DEF MayGo, Unlaunched, Waited, Stages, StageOf
  <2>4. (Stages /\ StopLeavesNothing)'
    BY <2>2, <2>3, GotoKeeps DEF Waited
  <2>. QED BY <1>1, <2>1, <2>4
<1>4. CASE UNCHANGED <<pc, outcome>>
  <2>1. TypeOK'
    BY <1>4 DEF TypeOK, childVars
  <2>2. Stages'
    BY <1>4, StageUntouched DEF Stages, childVars
  <2>3. StopLeavesNothing'
    BY <1>4 DEF StopLeavesNothing, Down, Entry, childVars
  <2>. QED BY <1>1, <2>1, <2>2, <2>3
<1>5. CASE FailEarly(s)
  <2>1. TypeOK'
    BY <1>5, FailEarlyType
  <2>2. (Stages /\ StopLeavesNothing)'
    BY <1>2, <1>5, NothingPending, FailEarlyKeeps
  <2>. QED BY <1>1, <2>1, <2>2
<1>. QED BY <1>3, <1>4, <1>5

LEMMA PollKeeps ==
  ASSUME TypeOK, NEW s \in Sessions, NEW port, NEW next \in Waited,
         Poll(s, port, next)
  PROVE  /\ attempts' \in [Sessions -> 0 .. MaxAttempts]
         /\ \/ \E label \in Waited : Goto(s, label)
            \/ UNCHANGED <<pc, outcome>>
            \/ FailEarly(s)
BY SessionAssumption DEF TypeOK, Poll

LEMMA PollStep ==
  ASSUME IInv, NEW s \in Sessions, PollNode(s) \/ PollAdapter(s)
  PROVE  IInv'
<1>. USE DEF IInv, Waited
<1>1. CASE PollNode(s)
  <2>. DEFINE next == IF Plan(s).pollAdapter THEN "pollAdapter" ELSE "setup"
  <2>1. next \in Waited /\ Poll(s, Port(s, "substrate"), next)
    BY <1>1 DEF PollNode
  <2>. HIDE DEF next
  <2>. QED BY <1>1, <2>1, PollKeeps, WaitedKeeps DEF PollNode
<1>2. CASE PollAdapter(s)
  BY <1>2, PollKeeps, WaitedKeeps DEF PollAdapter
<1>. QED BY <1>1, <1>2

LEMMA SetUpStep ==
  ASSUME IInv, NEW s \in Sessions, SetUp(s)
  PROVE  IInv'
BY WaitedKeeps DEF SetUp, Waited, IInv, TypeOK

LEMMA FinishStep ==
  ASSUME IInv, NEW s \in Sessions, Finish(s)
  PROVE  IInv'
<1>. USE DEF IInv
<1>. PICK result \in {"ok", "failed"} :
       /\ outcome' = [outcome EXCEPT ![s] = result]
       /\ pc' = [pc EXCEPT ![s] = "stopping"]
       /\ UNCHANGED <<request, probed, attempts, childVars>>
  BY DEF Finish
<1>1. TypeOK'
  BY DEF TypeOK, Labels, childVars
<1>2. (LaunchesAreValid /\ Handles /\ Names /\ Holders)'
  BY ChildrenUntouched
<1>3. AllAttached(s) /\ Entry(s) # "node"
  BY DEF Finish, Stages, StageOf, Waited
<1>4. (Stages /\ StopLeavesNothing)'
  BY <1>3, NothingPending, StoppingKeeps
<1>. QED BY <1>1, <1>2, <1>4

LEMMA EndBlockingStep ==
  ASSUME IInv, NEW s \in Sessions, EndBlocking(s)
  PROVE  IInv'
<1>. USE DEF IInv, EndBlocking
<1>1. TypeOK'
  BY DEF TypeOK, Labels, Settle, childVars
<1>2. (LaunchesAreValid /\ Handles /\ Names /\ Holders)'
  BY ChildrenUntouched
<1>3. (Stages /\ StopLeavesNothing)'
  BY SettleKeeps DEF Stages, StageOf
<1>. QED BY <1>1, <1>2, <1>3

\* Listen: what is launched was not rejected, containers have no handle yet and
\* nobody listens.
LEMMA ListenStep ==
  ASSUME IInv, NEW s \in Sessions, Listen(s)
  PROVE  IInv'
<1>. USE DEF IInv
<1>. DEFINE next == IF Entry(s) = "node" THEN "blocking" ELSE "launching"
<1>1. /\ UNCHANGED <<request, probed, attempts, outcome, holder, nameOf, deaths>>
      /\ pc' = [pc EXCEPT ![s] = next] /\ pc[s] = "construct"
      /\ Mode(s) # "invalid"
      /\ \A t \in Sessions \ {s} :
           child'[t] = child[t] /\ attached'[t] = attached[t]
  BY DEF Listen, Goto, TypeOK
<1>2. \A svc \in Services :
        /\ child'[s][svc] = IF svc \notin Launched(Mode(s)) THEN "none"
                            ELSE IF IsContainer(s, svc) THEN "clearing"
                            ELSE "starting"
        /\ attached'[s][svc] = (svc \in Launched(Mode(s)) /\ ~IsContainer(s, svc))
        /\ child[s][svc] = "none"
  BY DEF Listen, TypeOK, Stages, StageOf, Unlaunched
<1>3. TypeOK'
  <2>1. child' \in [Sessions -> [Services -> ChildStates]]
    BY DEF Listen, TypeOK, ChildStates
  <2>2. attached' \in [Sessions -> [Services -> BOOLEAN]]
    BY DEF Listen, TypeOK
  <2>. QED BY <1>1, <2>1, <2>2 DEF TypeOK, Labels
<1>. USE DEF Entry
<1>4. ASSUME NEW t \in Sessions
      PROVE  /\ Mode(t)' = Mode(t) /\ Commands(t)' = Commands(t)
             /\ \A svc \in Services : /\ IsContainer(t, svc)' = IsContainer(t, svc)
                                      /\ Port(t, svc)' = Port(t, svc)
                                      /\ Misled(t, svc)' = Misled(t, svc)
  BY <1>1 DEF Mode, Plan, Commands, Config, IsContainer, Port, Misled
<1>5. Stages'
  <2>1. ASSUME NEW t \in Sessions PROVE StageOf(t)'
    <3>1. CASE t # s
      BY <1>1, <3>1, StageUntouched DEF Stages, TypeOK
    <3>2. CASE t = s
      BY <1>1, <1>2, <1>4, <3>2, PlanFacts DEF StageOf, Unlaunched, Waited, TypeOK
    <3>. QED BY <3>1, <3>2
  <2>. QED BY <2>1 DEF Stages
<1>6. LaunchesAreValid'
  <2>1. ASSUME NEW t \in Sessions, Launches(t)' # {}
        PROVE  /\ Launches(t)' \subseteq Launched(Mode(t))
               /\ ~RejectsCommands(Commands(t))
               /\ Entry(t) # "node" => FoundPorts(t)
    <3>1. CASE t # s
      BY <1>1, <2>1, <3>1 DEF LaunchesAreValid, Launches
    <3>2. CASE t = s
      BY <1>2, <2>1, <3>2 DEF Listen, Launches, Stages, StageOf
    <3>. QED BY <3>1, <3>2
  <2>. QED BY <1>1, <1>4, <2>1 DEF LaunchesAreValid, FoundPorts
<1>7. Handles'
  <2>1. ASSUME NEW t \in Sessions, NEW svc \in Services PROVE HandleOf(t, svc)'
    <3>1. CASE t # s
      BY <1>1, <1>4, <3>1 DEF Handles, HandleOf
    <3>2. CASE t = s
      BY <1>2, <1>4, <3>2, PlanFacts DEF HandleOf, Alive, IsContainer
    <3>. QED BY <3>1, <3>2
  <2>. QED BY <2>1 DEF Handles
<1>8. Names'
  BY <1>1, <1>2, <1>4, PlanFacts DEF Names, Alive, IsContainer
<1>9. Holders'
  BY <1>1, <1>2, <1>4, PlanFacts DEF Holders, HolderOf, Holds, IsContainer
<1>10. StopLeavesNothing'
  BY <1>1 DEF StopLeavesNothing, Down, TypeOK
<1>. QED BY <1>3, <1>5, <1>6, <1>7, <1>8, <1>9, <1>10

\* A step of a child leaves its task where it is: a service that is there stays
\* there, nothing that ended comes back, and handles are kept.
ChildMoves(s, svc) ==
  /\ attached[s][svc] => attached'[s][svc]
  /\ child'[s][svc] = "none" <=> child[s][svc] = "none"
  /\ child'[s][svc] \in {"clearing", "creating"}
       => child[s][svc] \in {"clearing", "creating"}
  /\ child[s][svc] \in {"none", "failed", "dead"}
       => child'[s][svc] \in {"none", "failed", "dead"}

\* The plan of a session stays the same.
LEMMA SamePlan ==
  ASSUME NEW s \in Sessions, UNCHANGED <<request, probed>>
  PROVE  /\ Entry(s)' = Entry(s) /\ Plan(s)' = Plan(s)
         /\ Mode(s)' = Mode(s) /\ Commands(s)' = Commands(s)
         /\ \A svc \in Services : /\ IsContainer(s, svc)' = IsContainer(s, svc)
                                  /\ Port(s, svc)' = Port(s, svc)
                                  /\ Misled(s, svc)' = Misled(s, svc)
BY DEF Mode, Plan, Commands, Config, Entry, IsContainer, Port, Misled

LEMMA ChildMovesKeep ==
  ASSUME IInv, UNCHANGED taskVars,
         \A s \in Sessions, svc \in Services : ChildMoves(s, svc)
  PROVE  (Stages /\ LaunchesAreValid /\ StopLeavesNothing)'
<1>. USE DEF IInv, taskVars, ChildMoves
<1>1. ASSUME NEW s \in Sessions PROVE StageOf(s)'
  BY SamePlan, PlanFacts DEF Stages, StageOf, AllAttached, FoundPorts
<1>2. LaunchesAreValid'
  BY SamePlan DEF LaunchesAreValid, Launches, FoundPorts
<1>3. StopLeavesNothing'
  BY SamePlan DEF StopLeavesNothing, Down
<1>. QED BY <1>1, <1>2, <1>3 DEF Stages

\* A child that takes a free port holds it from then on.
LEMMA HolderAdded ==
  ASSUME IInv, UNCHANGED <<request, probed>>,
         NEW s \in Sessions, NEW svc \in Services, ~Misled(s, svc),
         holder[Port(s, svc)] = Nobody,
         holder' = [holder EXCEPT ![Port(s, svc)] = <<s, svc>>],
         NEW state, child' = [child EXCEPT ![s][svc] = state],
         Holds(s, svc)'
  PROVE  Holders'
<1>. USE DEF IInv
<1>1. \A p \in Ports : holder'[p] = IF p = Port(s, svc) THEN <<s, svc>> ELSE holder[p]
  BY DEF TypeOK
<1>2. ASSUME NEW t \in Sessions, NEW other \in Services
      PROVE  HolderOf(t, other)'
  <2>1. CASE t = s /\ other = svc
    BY <1>1, <2>1, SamePlan, PlanFacts DEF Holders, HolderOf
  <2>2. CASE ~(t = s /\ other = svc)
    <3>1. child'[t][other] = child[t][other]
      BY <2>2 DEF TypeOK
    <3>2. \A p \in Ports : holder'[p] = <<t, other>> <=> holder[p] = <<t, other>>
      BY <1>1, <2>2, NoTuple
    <3>. QED BY <3>1, <3>2, SamePlan, PlanFacts DEF Holders, HolderOf, Holds
  <2>. QED BY <2>1, <2>2
<1>. QED BY <1>2 DEF Holders

LEMMA BindStep ==
  ASSUME IInv, NEW s \in Sessions, NEW svc \in Services, Bind(s, svc)
  PROVE  IInv'
<1>. USE DEF IInv
<1>1. /\ UNCHANGED <<request, probed, taskVars, attached, nameOf, deaths>>
      /\ child[s][svc] = "starting" /\ ~IsContainer(s, svc)
  BY DEF Bind, taskVars
<1>2. CASE /\ holder[Port(s, svc)] = Nobody /\ ~Misled(s, svc)
           /\ child' = [child EXCEPT ![s][svc] = "up"]
           /\ holder' = [holder EXCEPT ![Port(s, svc)] = <<s, svc>>]
  <2>1. TypeOK'
    BY <1>1, <1>2, PlanFacts DEF TypeOK, taskVars, ChildStates
  <2>2. (Stages /\ LaunchesAreValid /\ StopLeavesNothing)'
    BY <1>1, <1>2, ChildMovesKeep DEF ChildMoves, TypeOK
  <2>3. Handles' /\ Names'
    BY <1>1, <1>2, SamePlan DEF TypeOK, Handles, HandleOf, Names, Alive
  <2>4. Holders'
    BY <1>1, <1>2, HolderAdded DEF Holds, TypeOK
  <2>. QED BY <2>1, <2>2, <2>3, <2>4
<1>3. CASE child' = [child EXCEPT ![s][svc] = "dead"] /\ UNCHANGED holder
  <2>1. TypeOK'
    BY <1>1, <1>3 DEF TypeOK, taskVars, ChildStates
  <2>2. (Stages /\ LaunchesAreValid /\ StopLeavesNothing)'
    BY <1>1, <1>3, ChildMovesKeep DEF ChildMoves, TypeOK
  <2>3. Handles' /\ Names'
    BY <1>1, <1>3, SamePlan DEF TypeOK, Handles, HandleOf, Names, Alive
  <2>4. Holders'
    BY <1>1, <1>3, SamePlan DEF TypeOK, Holders, HolderOf, Holds
  <2>. QED BY <2>1, <2>2, <2>3, <2>4
<1>. QED BY <1>2, <1>3 DEF Bind

LEMMA CreateContainerStep ==
  ASSUME IInv, NEW s \in Sessions, NEW svc \in Services, CreateContainer(s, svc)
  PROVE  IInv'
<1>. USE DEF IInv
<1>1. /\ UNCHANGED <<request, probed, taskVars, deaths>>
      /\ child[s][svc] = "creating" /\ IsContainer(s, svc) /\ ~attached[s][svc]
  BY DEF CreateContainer, taskVars, Handles, HandleOf, Alive
<1>2. CASE /\ nameOf[svc] = Nobody /\ holder[Port(s, svc)] = Nobody
           /\ child' = [child EXCEPT ![s][svc] = "starting"]
           /\ attached' = [attached EXCEPT ![s][svc] = TRUE]
           /\ nameOf' = [nameOf EXCEPT ![svc] = s]
           /\ holder' = [holder EXCEPT ![Port(s, svc)] = <<s, svc>>]
  <2>1. TypeOK'
    BY <1>1, <1>2, PlanFacts DEF TypeOK, taskVars, ChildStates
  <2>2. (Stages /\ LaunchesAreValid /\ StopLeavesNothing)'
    BY <1>1, <1>2, ChildMovesKeep DEF ChildMoves, TypeOK
  <2>3. Handles'
    BY <1>1, <1>2, SamePlan DEF TypeOK, Handles, HandleOf, Alive
  <2>4. Names'
    <3>1. \A t \in Sessions : ~(IsContainer(t, svc) /\ child[t][svc] \in Alive)
      BY <1>2, SessionAssumption DEF Names
    <3>. QED BY <1>1, <1>2, <3>1, SamePlan DEF TypeOK, Names, Alive
  <2>5. Holders'
    BY <1>1, <1>2, HolderAdded, PlanFacts, SamePlan DEF Holds, TypeOK
  <2>. QED BY <2>1, <2>2, <2>3, <2>4, <2>5
<1>3. CASE /\ child' = [child EXCEPT ![s][svc] = "failed"]
           /\ UNCHANGED <<attached, nameOf, holder>>
  <2>1. TypeOK'
    BY <1>1, <1>3 DEF TypeOK, taskVars, ChildStates
  <2>2. (Stages /\ LaunchesAreValid /\ StopLeavesNothing)'
    BY <1>1, <1>3, ChildMovesKeep DEF ChildMoves, TypeOK
  <2>3. Handles' /\ Names'
    BY <1>1, <1>3, SamePlan DEF TypeOK, Handles, HandleOf, Names, Alive
  <2>4. Holders'
    BY <1>1, <1>3, SamePlan DEF TypeOK, Holders, HolderOf, Holds
  <2>. QED BY <2>1, <2>2, <2>3, <2>4
<1>. QED BY <1>2, <1>3 DEF CreateContainer

LEMMA ContainerReadyStep ==
  ASSUME IInv, NEW s \in Sessions, NEW svc \in Services, ContainerReady(s, svc)
  PROVE  IInv'
<1>. USE DEF IInv
<1>1. /\ UNCHANGED <<request, probed, taskVars, attached, holder, nameOf, deaths>>
      /\ child[s][svc] = "starting" /\ IsContainer(s, svc)
      /\ child' = [child EXCEPT ![s][svc] = "up"]
  BY DEF ContainerReady, taskVars
<1>2. TypeOK'
  BY <1>1 DEF TypeOK, taskVars, ChildStates
<1>3. (Stages /\ LaunchesAreValid /\ StopLeavesNothing)'
  BY <1>1, ChildMovesKeep DEF ChildMoves, TypeOK
<1>4. Handles' /\ Names'
  BY <1>1, SamePlan DEF TypeOK, Handles, HandleOf, Names, Alive
<1>5. Holders'
  BY <1>1, SamePlan DEF TypeOK, Holders, HolderOf, Holds
<1>. QED BY <1>2, <1>3, <1>4, <1>5

\* Children that are gone release their ports.
LEMMA HoldersReleased ==
  ASSUME IInv, UNCHANGED <<request, probed>>, NEW gone, holder' = Released(gone),
         \A s \in Sessions, svc \in Services :
           IF <<s, svc>> \in gone THEN ~Holds(s, svc)'
                                  ELSE Holds(s, svc)' <=> Holds(s, svc)
  PROVE  /\ Holders'
         /\ holder' \in [Ports -> {Nobody, Foreign} \cup (Sessions \X Services)]
<1>. USE DEF IInv
<1>1. \A p \in Ports :
        holder'[p] = IF holder[p] \in gone THEN Nobody ELSE holder[p]
  BY DEF Released
<1>2. ASSUME NEW s \in Sessions, NEW svc \in Services
      PROVE  HolderOf(s, svc)'
  <2>1. \A p \in Ports : holder'[p] = <<s, svc>> <=>
          holder[p] = <<s, svc>> /\ <<s, svc>> \notin gone
    BY <1>1, NoTuple
  <2>2. Holds(s, svc)' => Holds(s, svc) /\ <<s, svc>> \notin gone
    OBVIOUS
  <2>3. Holds(s, svc) /\ <<s, svc>> \notin gone => Holds(s, svc)'
    OBVIOUS
  <2>. QED BY <2>1, <2>2, <2>3, SamePlan, PlanFacts DEF Holders, HolderOf
<1>3. holder' \in [Ports -> {Nobody, Foreign} \cup (Sessions \X Services)]
  BY DEF Released, TypeOK
<1>. QED BY <1>2, <1>3 DEF Holders

LEMMA DieStep ==
  ASSUME IInv, NEW s \in Sessions, NEW svc \in Services, Die(s, svc)
  PROVE  IInv'
<1>. USE DEF IInv
<1>1. /\ UNCHANGED <<request, probed, taskVars, attached>>
      /\ child[s][svc] \in Alive
      /\ child' = [child EXCEPT ![s][svc] = "dead"]
      /\ holder' = Released({<<s, svc>>})
      /\ deaths < MaxDeaths /\ deaths' = deaths + 1
  BY DEF Die, taskVars
<1>2. nameOf' = IF IsContainer(s, svc) THEN [nameOf EXCEPT ![svc] = Nobody]
                                       ELSE nameOf
  BY DEF Die
<1>3. Holders' /\ holder' \in [Ports -> {Nobody, Foreign} \cup (Sessions \X Services)]
  <2>1. \A t \in Sessions, other \in Services :
          IF <<t, other>> \in {<<s, svc>>} THEN ~Holds(t, other)'
          ELSE Holds(t, other)' <=> Holds(t, other)
    BY <1>1, SamePlan DEF Holds, TypeOK
  <2>. QED BY <1>1, <2>1, HoldersReleased
<1>4. TypeOK'
  <2>1. deaths' \in 0 .. MaxDeaths
    BY <1>1, SessionAssumption DEF TypeOK
  <2>. QED BY <1>1, <1>2, <1>3, <2>1 DEF TypeOK, taskVars, ChildStates
<1>5. (Stages /\ LaunchesAreValid /\ StopLeavesNothing)'
  BY <1>1, ChildMovesKeep DEF ChildMoves, TypeOK, Alive
<1>6. Handles'
  BY <1>1, SamePlan DEF TypeOK, Handles, HandleOf, Alive
<1>7. Names'
  <2>1. ASSUME NEW t \in Sessions, NEW other \in Services
        PROVE  nameOf'[other] = t
                 <=> IsContainer(t, other) /\ child'[t][other] \in Alive
    <3>1. CASE other # svc
      BY <1>1, <1>2, <3>1 DEF TypeOK, Names
    <3>2. CASE other = svc
      <4>1. nameOf'[svc] = IF IsContainer(s, svc) THEN Nobody ELSE nameOf[svc]
        BY <1>2 DEF TypeOK
      <4>2. child'[t][svc] = IF t = s THEN "dead" ELSE child[t][svc]
        BY <1>1 DEF TypeOK
      <4>3. /\ nameOf[svc] = t <=> IsContainer(t, svc) /\ child[t][svc] \in Alive
            /\ nameOf[svc] = s <=> IsContainer(s, svc)
        BY <1>1 DEF Names
      <4>. QED BY <3>2, <4>1, <4>2, <4>3, NoSession DEF Alive
    <3>. QED BY <3>1, <3>2
  <2>. QED BY <1>1, <2>1, SamePlan DEF Names
<1>. QED BY <1>3, <1>4, <1>5, <1>6, <1>7

LEMMA CannotLaunchStep ==
  ASSUME IInv, NEW s \in Sessions, NEW svc \in Services, CannotLaunch(s, svc)
  PROVE  IInv'
<1>. USE DEF IInv
<1>1. /\ UNCHANGED <<request, probed, taskVars, attached, holder, nameOf>>
      /\ \/ child[s][svc] = "creating"
         \/ child[s][svc] = "starting" /\ ~IsContainer(s, svc)
      /\ child' = [child EXCEPT ![s][svc] = "failed"]
      /\ deaths < MaxDeaths /\ deaths' = deaths + 1
  BY DEF CannotLaunch, taskVars
<1>2. TypeOK'
  <2>1. deaths' \in 0 .. MaxDeaths
    BY <1>1, SessionAssumption DEF TypeOK
  <2>. QED BY <1>1, <2>1 DEF TypeOK, taskVars, ChildStates
<1>3. (Stages /\ LaunchesAreValid /\ StopLeavesNothing)'
  BY <1>1, ChildMovesKeep DEF ChildMoves, TypeOK
<1>4. Handles' /\ Names'
  BY <1>1, SamePlan DEF TypeOK, Handles, HandleOf, Names, Alive
<1>5. Holders'
  BY <1>1, SamePlan DEF TypeOK, Holders, HolderOf, Holds
<1>. QED BY <1>2, <1>3, <1>4, <1>5

\* ClearName: the container that has the name is another session's.
LEMMA ClearNameStep ==
  ASSUME IInv, NEW s \in Sessions, NEW svc \in Services, ClearName(s, svc)
  PROVE  IInv'
<1>. USE DEF IInv
<1>. DEFINE owners == {t \in Sessions : nameOf[svc] = t}
<1>1. /\ UNCHANGED <<request, probed, taskVars, attached, deaths>>
      /\ child[s][svc] = "clearing" /\ IsContainer(s, svc) /\ ~attached[s][svc]
      /\ s \notin owners
  BY DEF ClearName, taskVars, Handles, HandleOf, Names, Alive
<1>2. /\ holder' = Released(owners \X {svc})
      /\ nameOf' = [nameOf EXCEPT ![svc] = Nobody]
  BY DEF ClearName
<1>3. ASSUME NEW t \in Sessions, NEW other \in Services
      PROVE  child'[t][other] = IF other # svc THEN child[t][other]
                                ELSE IF t \in owners THEN "dead"
                                ELSE IF t = s THEN "creating"
                                ELSE child[t][other]
  BY DEF ClearName, TypeOK
<1>4. child' \in [Sessions -> [Services -> ChildStates]]
  BY DEF ClearName, TypeOK, ChildStates
<1>5. \A t \in owners : IsContainer(t, svc) /\ child[t][svc] \in Alive
  BY DEF Names
<1>. HIDE DEF owners
<1>6. Holders' /\ holder' \in [Ports -> {Nobody, Foreign} \cup (Sessions \X Services)]
  <2>1. \A t \in Sessions, other \in Services :
          IF <<t, other>> \in owners \X {svc} THEN ~Holds(t, other)'
          ELSE Holds(t, other)' <=> Holds(t, other)
    BY <1>1, <1>3, SamePlan DEF Holds
  <2>. QED BY <1>1, <1>2, <2>1, HoldersReleased
<1>7. TypeOK'
  BY <1>1, <1>2, <1>4, <1>6 DEF TypeOK, taskVars
<1>8. (Stages /\ LaunchesAreValid /\ StopLeavesNothing)'
  BY <1>1, <1>3, <1>5, ChildMovesKeep DEF ChildMoves, Alive
<1>9. Handles'
  BY <1>1, <1>3, <1>5, SamePlan DEF Handles, HandleOf, Alive
<1>10. Names'
  <2>1. ASSUME NEW t \in Sessions, NEW other \in Services
        PROVE  nameOf'[other] = t
                 <=> IsContainer(t, other) /\ child'[t][other] \in Alive
    <3>1. CASE other # svc
      BY <1>2, <1>3, <3>1 DEF TypeOK, Names
    <3>2. CASE other = svc
      <4>1. nameOf'[svc] = Nobody
        BY <1>2 DEF TypeOK
      <4>2. ~(IsContainer(t, svc) /\ child'[t][svc] \in Alive)
        BY <1>1, <1>3 DEF owners, Names, Alive
      <4>. QED BY <3>2, <4>1, <4>2, NoSession
    <3>. QED BY <3>1, <3>2
  <2>. QED BY <1>1, <2>1, SamePlan DEF Names
<1>. QED BY <1>6, <1>7, <1>8, <1>9, <1>10

\* Stop: what is attached is gone, and nothing else was alive or on its way.
LEMMA StopStep ==
  ASSUME IInv, NEW s \in Sessions, Stop(s)
  PROVE  IInv'
<1>. USE DEF IInv
<1>1. UNCHANGED <<request, probed, attempts, attached, deaths>> /\ pc[s] = "stopping"
  BY DEF Stop
<1>2. /\ holder' = Released({s} \X Stopped(s))
      /\ nameOf' = [svc \in Services |->
           IF nameOf[svc] = s /\ svc \in Stopped(s) THEN Nobody ELSE nameOf[svc]]
  BY DEF Stop
<1>3. ASSUME NEW t \in Sessions, NEW svc \in Services
      PROVE  child'[t][svc] = IF t = s /\ svc \in Stopped(s) THEN "dead"
                              ELSE child[t][svc]
  BY DEF Stop, TypeOK
<1>4. child' \in [Sessions -> [Services -> ChildStates]]
  BY DEF Stop, TypeOK, ChildStates
<1>5. /\ \E label \in {"settled", "hung"} : pc' = [pc EXCEPT ![s] = label]
      /\ outcome' = outcome \/ outcome' = [outcome EXCEPT ![s] = "failed"]
  BY DEF Stop, Goto, Settle
<1>6. ASSUME NEW svc \in Services
      PROVE  /\ svc \in Stopped(s) <=> attached[s][svc]
             /\ child[s][svc] \in Alive => attached[s][svc]
             /\ child[s][svc] \notin {"clearing", "creating"}
  BY <1>1 DEF Stopped, Handles, HandleOf, Stages, StageOf, Alive
<1>7. Holders' /\ holder' \in [Ports -> {Nobody, Foreign} \cup (Sessions \X Services)]
  <2>1. \A t \in Sessions, svc \in Services :
          IF <<t, svc>> \in {s} \X Stopped(s) THEN ~Holds(t, svc)'
          ELSE Holds(t, svc)' <=> Holds(t, svc)
    BY <1>1, <1>3, SamePlan DEF Holds
  <2>. QED BY <1>1, <1>2, <2>1, HoldersReleased
<1>8. TypeOK'
  <2>1. nameOf' \in [Services -> {Nobody} \cup Sessions]
    BY <1>2 DEF TypeOK
  <2>2. pc' \in [Sessions -> Labels] /\ outcome' \in [Sessions -> {"none", "ok", "failed"}]
    <3>1. outcome' \in [Sessions -> {"none", "ok", "failed"}]
      BY <1>5 DEF TypeOK
    <3>2. PICK label \in {"settled", "hung"} : pc' = [pc EXCEPT ![s] = label]
      BY <1>5
    <3>. QED BY <3>1, <3>2 DEF TypeOK, Labels
  <2>. QED BY <1>1, <1>4, <1>7, <2>1, <2>2 DEF TypeOK
<1>9. Stages'
  <2>1. ASSUME NEW t \in Sessions PROVE StageOf(t)'
    <3>1. CASE t # s
      <4>1. child'[t] = child[t]
        BY <3>1 DEF Stop, TypeOK
      <4>. QED BY <1>1, <1>5, <3>1, <4>1, StageUntouched DEF Stages, TypeOK
    <3>2. CASE t = s
      BY <1>1, <1>5, <3>2, SamePlan DEF Stages, StageOf, TypeOK, Unlaunched, Waited
    <3>. QED BY <3>1, <3>2
  <2>. QED BY <2>1 DEF Stages
<1>10. LaunchesAreValid'
  <2>1. ASSUME NEW t \in Sessions PROVE Launches(t)' \subseteq Launches(t)
    BY <1>3, <1>6 DEF Launches, Handles, HandleOf
  <2>. QED BY <1>1, <2>1, SamePlan DEF LaunchesAreValid, FoundPorts
<1>11. Handles'
  BY <1>1, <1>3, <1>6, SamePlan DEF Handles, HandleOf, Alive
<1>12. Names'
  BY <1>1, <1>2, <1>3, <1>6, SamePlan, SessionAssumption DEF Names, Alive
<1>13. StopLeavesNothing'
  <2>1. Down(s)'
    BY <1>3, <1>4, <1>6 DEF Down, Alive, ChildStates
  <2>2. ASSUME NEW t \in Sessions, t # s
        PROVE  pc'[t] = pc[t] /\ outcome'[t] = outcome[t] /\ (Down(t)' <=> Down(t))
    BY <1>3, <1>5, <2>2 DEF Down, TypeOK
  <2>. QED BY <1>1, <2>1, <2>2, SamePlan DEF StopLeavesNothing
<1>. QED BY <1>7, <1>8, <1>9, <1>10, <1>11, <1>12, <1>13

LEMMA StepInv == IInv /\ [Next]_vars => IInv'
<1>. SUFFICES ASSUME IInv, [Next]_vars PROVE IInv'
  OBVIOUS
<1>1. ASSUME NEW s \in Sessions, TaskStep(s) PROVE IInv'
  BY <1>1, BeginStep, ProbeNodeStep, ProbeAdapterStep, ListenStep,
     RejectConfigStep, LaunchStep, PollStep, SetUpStep, FinishStep, StopStep,
     EndBlockingStep DEF TaskStep
<1>2. ASSUME NEW s \in Sessions, NEW svc \in Services,
             ChildStep(s, svc) \/ Die(s, svc) \/ CannotLaunch(s, svc)
      PROVE  IInv'
  BY <1>2, BindStep, ClearNameStep, CreateContainerStep, ContainerReadyStep,
     DieStep, CannotLaunchStep DEF ChildStep
<1>3. CASE UNCHANGED vars
  <2>1. TypeOK' /\ (Stages /\ StopLeavesNothing)'
    BY <1>3, StageUntouched DEF IInv, vars, TypeOK, Stages, StopLeavesNothing,
       Down, Entry
  <2>2. (LaunchesAreValid /\ Handles /\ Names /\ Holders)'
    BY <1>3, ChildrenUntouched DEF IInv, vars, childVars
  <2>. QED BY <2>1, <2>2 DEF IInv
<1>. QED BY <1>1, <1>2, <1>3 DEF Next

LEMMA Invariant == Spec => []IInv
BY InitInv, StepInv, PTL DEF Spec

-----------------------------------------------------------------------------
(* What follows from it. *)

\* Every variable keeps its type, whichever sessions and programs compete.
THEOREM TypeCorrect == Spec => []TypeOK
BY Invariant, PTL DEF IInv

\* stop() in the finally blocks: a task that succeeded, and a wrapped one that
\* ended in any way, leaves nothing behind, however many sessions meet.
THEOREM NothingLeft == Spec => []StopLeavesNothing
BY Invariant, PTL DEF IInv

\* What was launched was accepted with the ports that were found.
LEMMA OwnPortsInv == IInv => TestServicesHaveOwnPorts
<1>. SUFFICES ASSUME IInv, NEW s \in Sessions, Entry(s) = "test",
                     Config(s).forking # "disabled",
                     NEW a \in Launches(s), NEW b \in Launches(s),
                     Port(s, a) = Port(s, b)
              PROVE  a = b
  BY DEF TestServicesHaveOwnPorts
<1>1. /\ FoundPorts(s) /\ ~RejectsCommands(Commands(s))
      /\ a \in Launched(Mode(s)) /\ b \in Launched(Mode(s))
  BY DEF IInv, LaunchesAreValid
<1>. QED BY <1>1, PlanFacts, OwnPorts
         DEF IInv, FoundPorts, Commands, Mode, Port, Plan

\* "Adapter and node cannot share the same port.": wherever the searches ended
\* and whatever the configuration, but for a forking that is switched off.
THEOREM OwnServicePorts == Spec => []TestServicesHaveOwnPorts
BY OwnPortsInv, Invariant, PTL

\* --node-rpc-url and the argument of from_docker: in every task and every
\* mode the adapter is pointed at the port of its own session's node.
THEOREM AdapterIsPointed == Spec => []AdapterPointsAtNode
<1>1. IInv => AdapterPointsAtNode
  <2>. SUFFICES ASSUME IInv, NEW s \in Sessions,
                       NEW svc \in Launches(s) \ {"adapter"},
                       "adapter" \in Launches(s), ~Misled(s, svc)
                PROVE  Plan(s).upstream = Port(s, svc)
    BY DEF AdapterPointsAtNode
  <2>1. svc \in Launched(Mode(s)) /\ "adapter" \in Launched(Mode(s))
    BY DEF IInv, LaunchesAreValid
  <2>. QED BY <2>1, PlanFacts, OwnUpstream
           DEF IInv, Misled, Commands, Mode, Port, Plan
<1>. QED BY <1>1, Invariant, PTL

\* A task that stops takes no other step, and nobody else moves it.
LEMMA OnlyStopMoves ==
  ASSUME TypeOK, [Next]_vars, NEW s \in Sessions,
         pc[s] = "stopping", pc'[s] # pc[s]
  PROVE  Stop(s)
<1>1. ASSUME NEW t \in Sessions, TaskStep(t), t # s PROVE FALSE
  <2>1. CASE Begin(t) \/ ProbeNode(t) \/ ProbeAdapter(t) \/ Listen(t)
               \/ RejectConfig(t) \/ EndBlocking(t) \/ Finish(t) \/ Stop(t)
    BY <1>1, <2>1 DEF TypeOK, Begin, ProbeNode, ProbeAdapter, FoundPort, NoPort,
       Listen, RejectConfig, EndBlocking, Finish, Stop, Goto, Settle
  <2>2. CASE Launch(t) \/ PollNode(t) \/ PollAdapter(t) \/ SetUp(t)
    BY <1>1, <2>2 DEF TypeOK, Launch, PollNode, PollAdapter, Poll, SetUp,
       FailEarly, Goto, Settle
  <2>. QED BY <1>1, <2>1, <2>2 DEF TaskStep
<1>2. ASSUME TaskStep(s) PROVE Stop(s)
  BY <1>2 DEF TaskStep, Begin, ProbeNode, ProbeAdapter, Listen, RejectConfig,
     Launch, PollNode, PollAdapter, SetUp, Finish, EndBlocking
<1>3. ASSUME NEW t \in Sessions, NEW svc \in Services,
             ChildStep(t, svc) \/ Die(t, svc) \/ CannotLaunch(t, svc)
      PROVE  FALSE
  BY <1>3 DEF ChildStep, Bind, ClearName, CreateContainer, ContainerReady, Die,
     CannotLaunch, taskVars
<1>. QED BY <1>1, <1>2, <1>3 DEF Next, vars

\* Removing a container that is gone rejects: a task that succeeds in stopping
\* had every container it launched until then, whoever else wanted the name.
THEOREM LostContainersNoticed == Spec => LostContainerIsNoticed
<1>. DEFINE A == \A s \in Sessions :
       pc[s] = "stopping" /\ pc'[s] = "settled" /\ outcome'[s] = "ok"
       => \A svc \in Launches(s) : IsContainer(s, svc) =>
            nameOf[svc] = s /\ nameOf'[svc] = Nobody
<1>1. IInv /\ [Next]_vars => A
  <2>. SUFFICES ASSUME IInv, [Next]_vars, NEW s \in Sessions,
                       pc[s] = "stopping", pc'[s] = "settled",
                       outcome'[s] = "ok",
                       NEW svc \in Launches(s), IsContainer(s, svc)
                PROVE  nameOf[svc] = s /\ nameOf'[svc] = Nobody
    OBVIOUS
  <2>1. Stop(s)
    BY OnlyStopMoves DEF IInv
  <2>2. outcome[s] = "ok" /\ ~RemovalRejects(s)
    BY <2>1 DEF Stop, Goto, Settle, IInv, TypeOK
  <2>3. svc \in Stopped(s)
    BY <2>2 DEF IInv, Stages, StageOf, AllAttached, LaunchesAreValid, Launches, Stopped
  <2>4. child[s][svc] \in Alive
    BY <2>2, <2>3 DEF RemovalRejects, Stopped, IInv, Handles, HandleOf, Launches
  <2>5. nameOf[svc] = s
    BY <2>4 DEF IInv, Names, Launches
  <2>. QED BY <2>1, <2>3, <2>5 DEF Stop, Launches
<1>2. A => [A]_vars
  OBVIOUS
<1>. QED BY <1>1, <1>2, Invariant, PTL DEF Spec, LostContainerIsNoticed

-----------------------------------------------------------------------------
(* A session that is alone on its host. *)

Alone == \A s, t \in Sessions : s = t

LEMMA AloneInit == Init => AloneInv
<1>. SUFFICES ASSUME Init PROVE AloneInv
  OBVIOUS
<1>1. Polled /\ ContainersLast /\ OwnAdapterHolds
  BY DEF Init, Polled, ContainersLast, OwnAdapterHolds, Waited
<1>2. NotForeign
  BY PortAssumption DEF Init, NotForeign
<1>. QED BY <1>1, <1>2, InitInv DEF AloneInv

\* What other programs hold, they keep, and they take nothing more.
LEMMA ReleasedForeign ==
  ASSUME TypeOK, NEW gone, gone \subseteq Sessions \X Services,
         holder' = Released(gone)
  PROVE  \A p \in Ports : holder'[p] = Foreign <=> holder[p] = Foreign
BY SessionAssumption DEF Released

LEMMA ForeignStays ==
  ASSUME IInv, [Next]_vars
  PROVE  \A p \in Ports : holder'[p] = Foreign <=> holder[p] = Foreign
<1>. USE DEF IInv
<1>1. ASSUME NEW s \in Sessions, NEW svc \in Services,
             Bind(s, svc) \/ CreateContainer(s, svc)
      PROVE  \A p \in Ports : holder'[p] = Foreign <=> holder[p] = Foreign
  BY <1>1, PlanFacts, NoTuple, SessionAssumption DEF TypeOK, Bind, CreateContainer
<1>2. ASSUME NEW s \in Sessions, NEW svc \in Services,
             ClearName(s, svc) \/ Die(s, svc)
      PROVE  \A p \in Ports : holder'[p] = Foreign <=> holder[p] = Foreign
  BY <1>2, ReleasedForeign DEF ClearName, Die
<1>3. ASSUME NEW s \in Sessions, Stop(s)
      PROVE  \A p \in Ports : holder'[p] = Foreign <=> holder[p] = Foreign
  BY <1>3, ReleasedForeign DEF Stop, Stopped
<1>4. ASSUME NEW s \in Sessions, TaskStep(s), ~Stop(s) PROVE UNCHANGED holder
  BY <1>4 DEF TaskStep, Begin, ProbeNode, ProbeAdapter, Listen, RejectConfig,
     Launch, PollNode, PollAdapter, SetUp, Finish, EndBlocking, childVars
<1>5. ASSUME NEW s \in Sessions, NEW svc \in Services,
             ContainerReady(s, svc) \/ CannotLaunch(s, svc)
      PROVE  UNCHANGED holder
  BY <1>5 DEF ContainerReady, CannotLaunch
<1>. QED BY <1>1, <1>2, <1>3, <1>4, <1>5 DEF Next, ChildStep, vars

LEMMA NotForeignStep ==
  ASSUME IInv, NotForeign, [Next]_vars
  PROVE  NotForeign'
<1>. USE DEF IInv
<1>1. ASSUME NEW s \in Sessions, ProbeAdapter(s) PROVE NotForeign'
  <2>1. UNCHANGED <<request, holder>>
    BY <1>1 DEF ProbeAdapter, childVars
  <2>2. ASSUME NEW t \in Sessions
        PROVE  \/ probed'[t].adapter = probed[t].adapter
               \/ /\ probed'[t].adapter \in Ports
                  /\ holder[probed'[t].adapter] = Nobody
    <3>. DEFINE start == AdapterSearchStart(Entry(s), Config(s))
    <3>1. CASE NoPort(s, start)
      BY <3>1 DEF NoPort
    <3>2. CASE FoundPort(s, start, "adapter", "construct")
      <4>. PICK p \in Candidates(start) :
             probed' = [probed EXCEPT ![s] = [probed[s] EXCEPT !.adapter = p]]
        BY <3>2 DEF FoundPort, TypeOK
      <4>. QED BY DEF TypeOK, Candidates
    <3>. QED BY <1>1, <3>1, <3>2 DEF ProbeAdapter
  <2>. QED BY <2>1, <2>2, SessionAssumption DEF NotForeign, Entry
<1>2. ASSUME NEW s \in Sessions, ProbeNode(s)
      PROVE  /\ UNCHANGED request
             /\ \A t \in Sessions : probed'[t].adapter = probed[t].adapter
  <2>. DEFINE start == NodeSearchStart(Config(s))
  <2>1. CASE NoPort(s, start)
    BY <1>2, <2>1 DEF ProbeNode, NoPort
  <2>2. CASE FoundPort(s, start, "node", "probeAdapter")
    <3>. PICK p \in Candidates(start) :
           probed' = [probed EXCEPT ![s] = [probed[s] EXCEPT !.node = p]]
      BY <2>2 DEF FoundPort, TypeOK
    <3>. QED BY <1>2 DEF TypeOK, ProbeNode
  <2>. QED BY <1>2, <2>1, <2>2 DEF ProbeNode
<1>3. ASSUME NEW s \in Sessions, TaskStep(s), ~ProbeAdapter(s), ~ProbeNode(s)
      PROVE  UNCHANGED <<request, probed>>
  BY <1>3 DEF TaskStep, Begin, Listen, RejectConfig, Launch, PollNode,
     PollAdapter, SetUp, Finish, Stop, EndBlocking
<1>4. ASSUME NEW s \in Sessions, NEW svc \in Services,
             ChildStep(s, svc) \/ Die(s, svc) \/ CannotLaunch(s, svc)
      PROVE  UNCHANGED <<request, probed>>
  BY <1>4 DEF ChildStep, Bind, ClearName, CreateContainer, ContainerReady, Die,
     CannotLaunch, taskVars
<1>5. CASE UNCHANGED vars
  BY <1>5 DEF vars, NotForeign, Entry
<1>6. ASSUME UNCHANGED request,
             \A t \in Sessions : probed'[t].adapter = probed[t].adapter
      PROVE  NotForeign'
  BY <1>6, ForeignStays DEF NotForeign, Entry
<1>. QED BY <1>1, <1>2, <1>3, <1>4, <1>5, <1>6 DEF Next

\* Who holds the port of a service is that service, or a sibling on its port.
LEMMA Siblings ==
  ASSUME Alone, IInv, NEW s \in Sessions, NEW p \in Ports, Answers(p),
         holder[p] # Foreign
  PROVE  \E svc \in Launches(s) :
           /\ holder[p] = <<s, svc>> /\ child[s][svc] = "up"
           /\ p = Port(s, svc) /\ ~Misled(s, svc)
<1>1. PICK svc \in Services : holder[p] = <<s, svc>> /\ child[s][svc] = "up"
  BY DEF Answers, Alone
<1>. QED BY <1>1 DEF IInv, Holders, HolderOf, Launches

\* Modes of the processes that are polled.
LEMMA ModeFacts ==
  ASSUME NEW entry \in Entries, NEW c \in Configs, NEW probe \in Probes
  PROVE  LET plan == PlanOf(entry, c, probe)
         IN /\ plan.mode = "legacyBinary" => entry \in {"test", "node"}
            /\ plan.mode \in {"forkBinary", "forkDocker"} => c.forking = "enabled"
            /\ plan.pollAdapter <=> entry = "test" /\ ~TaskUsesAnvil(c)
            /\ plan.pollAdapter => plan.mode \notin {"anvilBinary", "anvilDocker"}
            /\ entry = "test" /\ c.forking = "disabled"
                 => CommandsFor(entry, c, probe).forking
<1>1. PlanOf(entry, c, probe).mode = ListenMode(ServerOptions(entry, c))
  BY ModeType
<1>2. PlanOf(entry, c, probe).pollAdapter <=> entry = "test" /\ ~TaskUsesAnvil(c)
  BY DEF PlanOf
<1>3. ListenMode(ServerOptions(entry, c)) = "legacyBinary" => entry \in {"test", "node"}
  BY DEF ListenMode, ServerOptions
<1>4. ListenMode(ServerOptions(entry, c)) \in {"forkBinary", "forkDocker"}
        => c.forking = "enabled"
  BY DEF ListenMode, ServerOptions, IsForking
<1>5. entry = "test" /\ ~TaskUsesAnvil(c)
        => ListenMode(ServerOptions(entry, c)) \notin {"anvilBinary", "anvilDocker"}
  BY DEF ListenMode, ServerOptions
<1>6. entry = "test" /\ c.forking = "disabled" => CommandsFor(entry, c, probe).forking
  BY DEF CommandsFor, HasForking
<1>. QED BY <1>1, <1>2, <1>3, <1>4, <1>5, <1>6

\* An answer on the port of a service that is still coming up is another
\* program's: its siblings listen elsewhere, cannot bind, or hold it first.
LEMMA PollAnswers ==
  ASSUME Alone, IInv, NEW s \in Sessions, pc[s] \in Waited,
         NEW svc \in PolledServices(s), Answers(Port(s, svc))
  PROVE  Answered(s, svc)
<1>. USE DEF IInv
<1>0. /\ svc \in Services
      /\ svc = "substrate" \/ (svc = "adapter" /\ Plan(s).pollAdapter)
  BY DEF PolledServices, Services
<1>. SUFFICES ASSUME child[s][svc] = "starting", ~Misled(s, svc),
                     holder[Port(s, svc)] # Foreign
              PROVE  FALSE
  BY DEF Answered
<1>1. PICK other \in Launches(s) :
        /\ holder[Port(s, svc)] = <<s, other>> /\ child[s][other] = "up"
        /\ Port(s, svc) = Port(s, other) /\ ~Misled(s, other)
  BY <1>0, Siblings, PlanFacts
<1>2. other # svc /\ svc \in Launches(s)
  BY <1>0, <1>1 DEF Launches
<1>3. ~IsContainer(s, svc)
  BY <1>0, <1>1, <1>2 DEF Holders, HolderOf, Holds
<1>4. {svc, other} \subseteq Launched(Mode(s))
  BY <1>2 DEF LaunchesAreValid
<1>5. Mode(s) \in {"legacyBinary", "forkBinary"}
  BY <1>0, <1>2, <1>3, <1>4, PlanFacts DEF Launched, Modes, IsContainer, Containers
<1>6. Entry(s) # "node"
  BY DEF Stages, StageOf, Waited
<1>7. Entry(s) = "test"
  <2>1. CASE Mode(s) = "legacyBinary"
    BY <1>6, <2>1, PlanFacts, ModeFacts DEF Mode, Plan
  <2>2. CASE Mode(s) = "forkBinary"
    <3>1. svc = "adapter"
      BY <1>0, <1>4, <2>2 DEF Launched
    <3>. QED BY <1>0, <3>1, PlanFacts, ModeFacts DEF Plan
  <2>. QED BY <1>5, <2>1, <2>2
<1>8. CASE Config(s).forking # "disabled"
  BY <1>1, <1>2, <1>7, <1>8, OwnPortsInv DEF TestServicesHaveOwnPorts
<1>9. CASE Config(s).forking = "disabled"
  <2>1. Mode(s) = "legacyBinary"
    BY <1>5, <1>9, PlanFacts, ModeFacts DEF Mode, Plan
  <2>2. Misled(s, "substrate")
    BY <1>7, <1>9, <2>1, PlanFacts, ModeFacts DEF Misled, Commands
  <2>3. "substrate" \in {svc, other}
    BY <1>2, <1>4, <2>1 DEF Launched
  <2>. QED BY <1>1, <2>2, <2>3
<1>. QED BY <1>8, <1>9

\* Where the adapter of a test listens, and the tests are sent.
LEMMA NetworkPort ==
  ASSUME IInv, NEW s \in Sessions, pc[s] \in Waited, Plan(s).pollAdapter
  PROVE  /\ Entry(s) = "test" /\ ~TaskUsesAnvil(Config(s))
         /\ Mode(s) \notin {"anvilBinary", "anvilDocker"}
         /\ "adapter" \in Launched(Mode(s)) /\ "adapter" \in Services
         /\ "adapter" \in Launches(s)
         /\ Port(s, "adapter") = probed[s].adapter
         /\ Plan(s).network = probed[s].adapter /\ probed[s].adapter \in Ports
<1>. USE DEF IInv
<1>1. /\ Entry(s) = "test" /\ ~TaskUsesAnvil(Config(s))
      /\ Mode(s) \notin {"anvilBinary", "anvilDocker"}
  BY PlanFacts, ModeFacts DEF Mode, Plan
<1>2. "adapter" \in Launched(Mode(s)) /\ "adapter" \in Services
  BY <1>1, PlanFacts DEF Stages, StageOf, Modes, Launched, Services
<1>3. "adapter" \in Launches(s)
  BY <1>2 DEF Stages, StageOf, AllAttached, Handles, HandleOf, Launches
<1>4. FoundPorts(s)
  BY <1>1, <1>3 DEF LaunchesAreValid
<1>5. /\ Port(s, "adapter") = probed[s].adapter
      /\ Plan(s).network = probed[s].adapter /\ probed[s].adapter \in Ports
  BY <1>1, <1>4, PlanFacts, TestAdapterPort DEF Port, Plan, FoundPorts
<1>. QED BY <1>1, <1>2, <1>3, <1>5

\* An answer on the port of a test's adapter is the adapter's own.
LEMMA OwnAdapterAnswers ==
  ASSUME Alone, AloneInv, NEW s \in Sessions, pc[s] \in Waited,
         Plan(s).pollAdapter, deaths = 0, Answers(Port(s, "adapter"))
  PROVE  holder[Plan(s).network] = <<s, "adapter">>
<1>. USE DEF AloneInv, IInv
<1>1. /\ Entry(s) = "test" /\ ~TaskUsesAnvil(Config(s))
      /\ Mode(s) \notin {"anvilBinary", "anvilDocker"}
      /\ "adapter" \in Launched(Mode(s)) /\ "adapter" \in Services
      /\ "adapter" \in Launches(s)
      /\ Port(s, "adapter") = probed[s].adapter
      /\ Plan(s).network = probed[s].adapter /\ probed[s].adapter \in Ports
  BY NetworkPort
<1>2. PICK svc \in Launches(s) :
        /\ holder[Port(s, "adapter")] = <<s, svc>>
        /\ Port(s, "adapter") = Port(s, svc) /\ ~Misled(s, svc)
  BY <1>1, Siblings DEF NotForeign
<1>3. CASE Config(s).forking # "disabled"
  BY <1>1, <1>2, <1>3, OwnPortsInv DEF TestServicesHaveOwnPorts
<1>4. CASE Config(s).forking = "disabled"
  <2>1. Mode(s) \in {"legacyBinary", "legacyDocker"}
    BY <1>1, <1>4, PlanFacts, ModeFacts DEF Mode, Plan, Modes, Stages, StageOf
  <2>2. CASE Mode(s) = "legacyBinary"
    <3>1. Misled(s, "substrate")
      BY <1>1, <1>4, <2>2, PlanFacts, ModeFacts DEF Misled, Commands
    <3>. QED BY <1>1, <1>2, <2>2, <3>1 DEF LaunchesAreValid, Launched
  <2>3. CASE Mode(s) = "legacyDocker"
    <3>1. IsContainer(s, "adapter")
      BY <2>3 DEF IsContainer, Containers, Launched
    <3>2. child[s]["adapter"] \in Alive
      BY <1>1, <3>1 DEF ContainersLast, Stages, StageOf, AllAttached, Handles, HandleOf
    <3>. QED BY <1>1, <1>2, <3>1, <3>2 DEF Holders, HolderOf, Holds, Alive
  <2>. QED BY <2>1, <2>2, <2>3
<1>. QED BY <1>3, <1>4

\* What is left of the invariant of a session that is alone.
Settled == Polled /\ ContainersLast /\ OwnAdapterHolds

\* A child of a task that waited neither starts again nor gives up its port,
\* unless it dies.
LEMMA AloneChildStep ==
  ASSUME Alone, AloneInv, NEW s \in Sessions, NEW svc \in Services,
         ChildStep(s, svc) \/ Die(s, svc) \/ CannotLaunch(s, svc)
  PROVE  Settled'
<1>. USE DEF AloneInv, IInv
<1>1. UNCHANGED taskVars /\ UNCHANGED <<request, probed, pc>>
  BY DEF ChildStep, Bind, ClearName, CreateContainer, ContainerReady, Die,
     CannotLaunch, taskVars
<1>2. [Next]_vars
  BY DEF Next
<1>3. ASSUME pc[s] \in Waited
      PROVE  /\ \A other \in Services :
                  child'[s][other] = "starting" => child[s][other] = "starting"
             /\ deaths' = 0 => deaths = 0 /\
                  \A p \in Ports, other \in Services :
                    holder[p] = <<s, other>> => holder'[p] = <<s, other>>
  <2>1. child[s][svc] \notin {"clearing", "creating"}
    BY <1>3, NothingPending DEF Stages, StageOf
  <2>2. CASE Bind(s, svc)
    <3>1. deaths' = deaths
      BY <2>2 DEF Bind
    <3>2. \A other \in Services :
            child'[s][other] = "starting" => child[s][other] = "starting"
      BY <2>2 DEF Bind, TypeOK
    <3>3. \A p \in Ports, other \in Services :
            holder[p] = <<s, other>> => holder'[p] = <<s, other>>
      BY <2>2, NoTuple, PlanFacts DEF Bind, TypeOK
    <3>. QED BY <3>1, <3>2, <3>3
  <2>3. CASE ContainerReady(s, svc)
    BY <2>3 DEF ContainerReady, TypeOK
  <2>4. CASE Die(s, svc)
    BY <2>4 DEF Die, TypeOK
  <2>5. CASE CannotLaunch(s, svc)
    BY <2>5 DEF CannotLaunch, TypeOK
  <2>. QED BY <2>1, <2>2, <2>3, <2>4, <2>5 DEF ChildStep, ClearName, CreateContainer
<1>4. Polled'
  <2>1. ASSUME NEW other \in Services, pc[s] \in Waited, Answered(s, other)
        PROVE  Answered(s, other)'
    BY <1>1, <1>2, <1>3, <2>1, SamePlan, PlanFacts, ForeignStays DEF Answered
  <2>2. {"substrate", "adapter"} \subseteq Services
    BY DEF Services
  <2>. QED BY <1>1, <2>1, <2>2, SamePlan DEF Alone, Polled, Waited
<1>5. ContainersLast'
  <2>. SUFFICES ASSUME deaths' = 0, pc[s] \in Waited \cup {"launching"},
                       NEW other \in Services, IsContainer(s, other)
                PROVE  child'[s][other] # "dead"
    BY <1>1, SamePlan DEF Alone, ContainersLast
  <2>1. CASE Bind(s, svc)
    BY <2>1 DEF Bind, TypeOK, ContainersLast
  <2>2. CASE ClearName(s, svc)
    <3>1. nameOf[svc] # s
      BY <2>2 DEF ClearName, Names, Alive
    <3>2. child' = [child EXCEPT ![s][svc] = "creating"] /\ deaths = 0
      BY <2>2, <3>1 DEF ClearName, Alone, TypeOK
    <3>. QED BY <3>2 DEF ContainersLast, TypeOK
  <2>3. CASE CreateContainer(s, svc)
    BY <2>3 DEF CreateContainer, TypeOK, ContainersLast
  <2>4. CASE ContainerReady(s, svc)
    BY <2>4 DEF ContainerReady, TypeOK, ContainersLast
  <2>5. CASE Die(s, svc) \/ CannotLaunch(s, svc)
    BY <2>5 DEF Die, CannotLaunch, TypeOK
  <2>. QED BY <2>1, <2>2, <2>3, <2>4, <2>5 DEF ChildStep
<1>6. OwnAdapterHolds'
  <2>1. ASSUME pc[s] \in {"setup", "working"}, Plan(s).pollAdapter, deaths' = 0
        PROVE  holder'[Plan(s).network] = <<s, "adapter">>
    <3>1. deaths = 0
      BY <1>3, <2>1 DEF Waited
    <3>2. holder[Plan(s).network] = <<s, "adapter">>
      BY <2>1, <3>1 DEF OwnAdapterHolds
    <3>3. Plan(s).network \in Ports
      BY <2>1, NetworkPort DEF Waited
    <3>. QED BY <1>3, <2>1, <3>2, <3>3 DEF Waited, Services
  <2>. QED BY <1>1, <2>1, SamePlan DEF Alone, OwnAdapterHolds
<1>. QED BY <1>4, <1>5, <1>6 DEF Settled

\* A task goes on with the services it has, and to the end of a poll only
\* when it had its answer.
LEMMA AloneGoesOn ==
  ASSUME Alone, AloneInv, NEW s \in Sessions,
         UNCHANGED <<request, probed, childVars>>,
         pc'[s] \in Waited \cup {"launching"}
           => pc[s] \in Waited \cup {"launching"},
         pc'[s] \in {"pollAdapter", "setup", "working"} => Answered(s, "substrate"),
         pc'[s] \in {"setup", "working"} /\ Plan(s).pollAdapter =>
           /\ Answered(s, "adapter")
           /\ deaths = 0 => holder[Plan(s).network] = <<s, "adapter">>
  PROVE  Settled'
<1>1. Plan(s)' = Plan(s) /\ Mode(s)' = Mode(s) /\ Commands(s)' = Commands(s)
  BY DEF Plan, Mode, Commands, Entry, Config
<1>2. \A svc \in Services : Answered(s, svc) => Answered(s, svc)'
  BY <1>1 DEF Answered, childVars, Misled, Port
<1>3. Polled'
  BY <1>1, <1>2 DEF Alone, Polled, Services
<1>4. ContainersLast'
  BY <1>1 DEF Alone, AloneInv, ContainersLast, childVars, IsContainer
<1>5. OwnAdapterHolds'
  BY <1>1 DEF Alone, OwnAdapterHolds, childVars
<1>. QED BY <1>3, <1>4, <1>5 DEF Settled

LEMMA AloneTaskStep ==
  ASSUME Alone, AloneInv, NEW s \in Sessions, TaskStep(s)
  PROVE  Settled'
<1>. USE DEF AloneInv, IInv
<1>1. CASE Begin(s) \/ ProbeNode(s) \/ ProbeAdapter(s) \/ RejectConfig(s)
             \/ Finish(s) \/ Stop(s) \/ EndBlocking(s)
  <2>1. pc'[s] \notin Waited \cup {"launching"}
    BY <1>1 DEF TypeOK, Begin, ProbeNode, ProbeAdapter, FoundPort, NoPort,
       RejectConfig, Finish, Stop, EndBlocking, Goto, Settle, Waited
  <2>. QED BY <2>1 DEF Alone, Settled, Polled, ContainersLast, OwnAdapterHolds, Waited
<1>2. CASE Listen(s)
  <2>1. pc'[s] \in {"launching", "blocking"}
    BY <1>2 DEF TypeOK, Listen, Goto
  <2>2. \A svc \in Services : child'[s][svc] # "dead"
    BY <1>2 DEF TypeOK, Listen
  <2>. QED BY <2>1, <2>2 DEF Alone, Settled, Polled, ContainersLast, OwnAdapterHolds
<1>3. CASE Launch(s)
  <2>1. pc'[s] \in {"pollNode", "stopping", "settled"}
    BY <1>3 DEF TypeOK, Launch, Goto, FailEarly, Settle
  <2>. QED BY <1>3, <2>1, AloneGoesOn DEF Launch
<1>4. CASE PollNode(s)
  <2>1. CASE Answers(Port(s, "substrate"))
    <3>1. Answered(s, "substrate")
      <4>1. pc[s] \in Waited /\ "substrate" \in PolledServices(s)
        BY <1>4 DEF PollNode, Waited, PolledServices
      <4>. QED BY <2>1, <4>1, PollAnswers
    <3>2. /\ pc'[s] \in {"pollNode", "pollAdapter", "setup", "stopping", "settled"}
          /\ pc'[s] = "setup" => ~Plan(s).pollAdapter
      BY <1>4 DEF TypeOK, PollNode, Poll, Goto, FailEarly, Settle
    <3>. QED BY <1>4, <3>1, <3>2, AloneGoesOn DEF PollNode, Waited
  <2>2. CASE ~Answers(Port(s, "substrate"))
    <3>1. pc'[s] \in {"pollNode", "stopping", "settled"}
      BY <1>4, <2>2 DEF TypeOK, PollNode, Poll, FailEarly, Settle
    <3>. QED BY <1>4, <3>1, AloneGoesOn DEF PollNode, Waited
  <2>. QED BY <2>1, <2>2
<1>5. CASE PollAdapter(s)
  <2>1. Answered(s, "substrate")
    BY <1>5 DEF PollAdapter, Polled
  <2>2. CASE Answers(Port(s, "adapter"))
    <3>1. Plan(s).pollAdapter => Answered(s, "adapter")
      BY <1>5, <2>2, PollAnswers DEF PollAdapter, Waited, PolledServices
    <3>2. Plan(s).pollAdapter /\ deaths = 0
            => holder[Plan(s).network] = <<s, "adapter">>
      BY <1>5, <2>2, OwnAdapterAnswers DEF PollAdapter, Waited
    <3>3. pc'[s] \in {"pollAdapter", "setup", "stopping", "settled"}
      BY <1>5 DEF TypeOK, PollAdapter, Poll, Goto, FailEarly, Settle
    <3>. QED BY <1>5, <2>1, <3>1, <3>2, <3>3, AloneGoesOn DEF PollAdapter, Waited
  <2>3. CASE ~Answers(Port(s, "adapter"))
    <3>1. pc'[s] \in {"pollAdapter", "stopping", "settled"}
      BY <1>5, <2>3 DEF TypeOK, PollAdapter, Poll, FailEarly, Settle
    <3>. QED BY <1>5, <2>1, <3>1, AloneGoesOn DEF PollAdapter, Waited
  <2>. QED BY <2>2, <2>3
<1>6. CASE SetUp(s)
  <2>1. pc[s] = "setup" /\ pc'[s] \in {"working", "stopping", "settled"}
    BY <1>6 DEF TypeOK, SetUp, Goto, FailEarly, Settle
  <2>2. /\ Answered(s, "substrate")
        /\ Plan(s).pollAdapter =>
             /\ Answered(s, "adapter")
             /\ deaths = 0 => holder[Plan(s).network] = <<s, "adapter">>
    BY <2>1 DEF Polled, OwnAdapterHolds
  <2>. QED BY <1>6, <2>1, <2>2, AloneGoesOn DEF SetUp, Waited
<1>. QED BY <1>1, <1>2, <1>3, <1>4, <1>5, <1>6 DEF TaskStep

LEMMA AloneStep ==
  ASSUME Alone
  PROVE  AloneInv /\ [Next]_vars => AloneInv'
<1>. SUFFICES ASSUME AloneInv, [Next]_vars PROVE AloneInv'
  OBVIOUS
<1>1. IInv' /\ NotForeign'
  BY StepInv, NotForeignStep DEF AloneInv
<1>2. Settled'
  <2>1. CASE UNCHANGED vars
    BY <2>1 DEF vars, AloneInv, Settled, Polled, ContainersLast, OwnAdapterHolds,
       Answered, Misled, IsContainer, Port, Mode, Commands, Plan, Entry, Config
  <2>. QED BY <2>1, AloneTaskStep, AloneChildStep DEF Next
<1>. QED BY <1>1, <1>2 DEF AloneInv, Settled

LEMMA AloneInvariant ==
  ASSUME Alone
  PROVE  Spec => []AloneInv
BY AloneInit, AloneStep, PTL DEF Spec

\* waitForNodeToBeReady and waitForEthRpcToBeReady: the tests, script or task
\* of a session that is alone on its host start only when the services that
\* were polled are up, gone or kept from their port by another program.
THEOREM WaitsForServices ==
  ASSUME Alone
  PROVE  Spec => []WorksOnlyWhenUp
<1>1. AloneInv => WorksOnlyWhenUp
  BY DEF AloneInv, WorksOnlyWhenUp, PolledServices, Polled, Answered
<1>. QED BY <1>1, AloneInvariant, PTL

\* configureNetwork: alone on its host, and unless a child died, a test talks
\* to the adapter of its own session, wherever the port searches ended.
THEOREM TestsReachAdapter ==
  ASSUME Alone
  PROVE  Spec => []TestsReachOwnAdapter
<1>1. AloneInv => TestsReachOwnAdapter
  BY DEF AloneInv, TestsReachOwnAdapter, OwnAdapterHolds
<1>. QED BY <1>1, AloneInvariant, PTL
=============================================================================
