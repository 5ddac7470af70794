----------------------------- MODULE NodeSession -----------------------------
(***************************************************************************)
(* The life of a local node: what a Hardhat task that needs one starts,    *)
(* waits for, uses and stops, when other tasks and other programs compete  *)
(* for the same ports and container names, and when children fail, die or  *)
(* come up late.                                                           *)
(*                                                                         *)
(* A session is one such task in one Hardhat process.  Ports are probed    *)
(* and released, and bound later by a child process.  Containers have one  *)
(* name per service for the whole host.                                    *)
(*                                                                         *)
(* Simplifications: time is left out (a poll may fail as long as attempts  *)
(* are left); a killed process frees its port at once; a program that      *)
(* holds a port answers the readiness request, or never: that step is not  *)
(* taken then.                                                             *)
(***************************************************************************)
EXTENDS NodePlan, FiniteSets

CONSTANTS
  Sessions,
  Requests,         \* [entry, config] pairs a session may be asked for
  ForeignPorts,     \* ports other programs may hold from the start
  MaxPortAttempts,  \* MAX_PORT_ATTEMPTS
  MaxAttempts,      \* maxAttempts of waitForServiceToBeReady
  MaxDeaths,        \* bound on children that die by themselves
  Nobody, Foreign   \* holders of ports and names that are no session's

ASSUME SessionAssumption ==
  /\ Requests \subseteq [entry : Entries, config : Configs]
  /\ ForeignPorts \subseteq Ports
  /\ MaxPortAttempts \in Nat \ {0} /\ MaxAttempts \in Nat \ {0}
  /\ MaxDeaths \in Nat
  /\ Nobody # Foreign
  /\ {Nobody, Foreign} \cap (Sessions \cup (Sessions \X Services)) = {}

VARIABLES
  request,   \* request[s]: the task and configuration of session s
  pc,        \* where the task is
  probed,    \* the ports the searches found
  attempts,  \* readiness polls left
  child,     \* child[s][svc]: the process or container of a service
  attached,  \* attached[s][svc]: the session holds a handle to stop it
  holder,    \* holder[p]: who listens on port p
  nameOf,    \* nameOf[svc]: the session whose container has svc's name
  outcome,   \* how the task ended
  deaths

taskVars == <<request, pc, probed, attempts, outcome>>
childVars == <<child, attached, holder, nameOf, deaths>>
vars == <<request, pc, probed, attempts, child, attached, holder, nameOf,
          outcome, deaths>>

Labels == {"idle", "probeNode", "probeAdapter", "construct", "launching",
           "blocking", "pollNode", "pollAdapter", "setup", "working",
           "stopping", "settled", "hung"}

\* "clearing" and "creating": the two awaited steps of from_docker before the
\* container exists.  "failed": the promise of the service was rejected.
ChildStates == {"none", "clearing", "creating", "starting", "up",
                "failed", "dead"}

Alive == {"starting", "up"}

TypeOK ==
  /\ request \in [Sessions -> Requests]
  /\ pc \in [Sessions -> Labels]
  /\ probed \in [Sessions -> [node : MaybePort, adapter : MaybePort]]
  /\ attempts \in [Sessions -> 0 .. MaxAttempts]
  /\ child \in [Sessions -> [Services -> ChildStates]]
  /\ attached \in [Sessions -> [Services -> BOOLEAN]]
  /\ holder \in [Ports -> {Nobody, Foreign} \cup (Sessions \X Services)]
  /\ nameOf \in [Services -> {Nobody} \cup Sessions]
  /\ outcome \in [Sessions -> {"none", "ok", "failed"}]
  /\ deaths \in 0 .. MaxDeaths

Init ==
  /\ request \in [Sessions -> Requests]
  /\ pc = [s \in Sessions |-> "idle"]
  /\ probed = [s \in Sessions |-> [node |-> Unset, adapter |-> Unset]]
  /\ attempts = [s \in Sessions |-> MaxAttempts]
  /\ child = [s \in Sessions |-> [svc \in Services |-> "none"]]
  /\ attached = [s \in Sessions |-> [svc \in Services |-> FALSE]]
  /\ \E taken \in SUBSET ForeignPorts :
       holder = [p \in Ports |-> IF p \in taken THEN Foreign ELSE Nobody]
  /\ nameOf = [svc \in Services |-> Nobody]
  /\ outcome = [s \in Sessions |-> "none"]
  /\ deaths = 0

-----------------------------------------------------------------------------

Entry(s) == request[s].entry
Config(s) == request[s].config
Plan(s) == PlanOf(Entry(s), Config(s), probed[s])
Commands(s) == CommandsFor(Entry(s), Config(s), probed[s])
Mode(s) == Plan(s).mode
Port(s, svc) == Plan(s).port[svc]
IsContainer(s, svc) == svc \in Containers(Mode(s))

\* The promise listen() returns waits for these services: in forking mode with
\* docker the one of chopsticks is dropped.
Awaited(s) ==
  IF Mode(s) = "forkDocker" THEN {"adapter"} ELSE Launched(Mode(s))

\* getAvailablePort: the first of MaxPortAttempts ports nobody holds.
Candidates(start) ==
  {p \in Ports : start <= p /\ p < start + MaxPortAttempts
                   /\ holder[p] = Nobody}

IsFirst(p, candidates) == p \in candidates /\ \A q \in candidates : p <= q

\* Mutant: an error of the request counts as an answer.
AnswersAnything(p) == TRUE

\* Who answers an HTTP request on port p.
Answers(p) ==
  \/ holder[p] = Foreign
  \/ \E s \in Sessions, svc \in Services :
       holder[p] = <<s, svc>> /\ child[s][svc] = "up"

\* The ports left to the others when the children in `gone` are gone.
Released(gone) ==
  [p \in Ports |-> IF holder[p] \in gone THEN Nobody ELSE holder[p]]

Goto(s, label) == pc' = [pc EXCEPT ![s] = label] /\ UNCHANGED outcome

Settle(s, result) ==
  /\ pc' = [pc EXCEPT ![s] = "settled"]
  /\ outcome' = [outcome EXCEPT ![s] = result]

\* An error before the node is in use: only the wrapped tasks stop the server
\* (try/finally); the test task and the script runner just fail.
FailEarly(s) ==
  IF Entry(s) = "wrap"
  THEN /\ pc' = [pc EXCEPT ![s] = "stopping"]
       /\ outcome' = [outcome EXCEPT ![s] = "failed"]
  ELSE Settle(s, "failed")

-----------------------------------------------------------------------------
(* Up to the launch. *)

Begin(s) ==
  /\ pc[s] = "idle"
  /\ Goto(s, IF Entry(s) = "node" THEN "construct" ELSE "probeNode")
  /\ UNCHANGED <<request, probed, attempts, childVars>>

FoundPort(s, start, field, next) ==
  /\ \E p \in Candidates(start) :
        /\ IsFirst(p, Candidates(start))
        /\ probed' = [probed EXCEPT ![s][field] = p]
  /\ Goto(s, next)

NoPort(s, start) ==
  /\ Candidates(start) = {}
  /\ Settle(s, "failed")
  /\ UNCHANGED probed

ProbeNode(s) ==
  /\ pc[s] = "probeNode"
  /\ \/ FoundPort(s, NodeSearchStart(Config(s)), "node", "probeAdapter")
     \/ NoPort(s, NodeSearchStart(Config(s)))
  /\ UNCHANGED <<request, attempts, childVars>>

ProbeAdapter(s) ==
  /\ pc[s] = "probeAdapter"
  /\ LET start == AdapterSearchStart(Entry(s), Config(s))
     IN FoundPort(s, start, "adapter", "construct") \/ NoPort(s, start)
  /\ UNCHANGED <<request, attempts, childVars>>

\* constructCommandArgs and listen(): the services of the mode are launched.
\* spawn hands a process over at once; a container is asked for.
Listen(s) ==
  /\ pc[s] = "construct"
  /\ ~RejectsCommands(Commands(s))
  /\ Mode(s) # "invalid"
  /\ child' = [child EXCEPT ![s] =
       [svc \in Services |->
          IF svc \notin Launched(Mode(s)) THEN "none"
          ELSE IF IsContainer(s, svc) THEN "clearing" ELSE "starting"]]
  /\ attached' = [attached EXCEPT ![s] =
       [svc \in Services |->
          svc \in Launched(Mode(s)) /\ ~IsContainer(s, svc)]]
  /\ Goto(s, IF Entry(s) = "node" THEN "blocking" ELSE "launching")
  /\ UNCHANGED <<request, probed, attempts, holder, nameOf, deaths>>

\* constructCommandArgs throws, outside every try; or listen() throws "Wrong
\* hardhat network configuration", and stop() then finds nothing to stop.
RejectConfig(s) ==
  /\ pc[s] = "construct"
  /\ RejectsCommands(Commands(s)) \/ Mode(s) = "invalid"
  /\ Settle(s, "failed")
  /\ UNCHANGED <<request, probed, attempts, childVars>>

-----------------------------------------------------------------------------
(* The children. *)

\* With forking switched off the node's binary is given the command line of
\* chopsticks: constructCommandArgs asks whether forking is there.
Misled(s, svc) ==
  svc = "substrate" /\ Mode(s) = "legacyBinary" /\ Commands(s).forking

\* A spawned process binds its port, or exits because it cannot.
Bind(s, svc) ==
  /\ child[s][svc] = "starting" /\ ~IsContainer(s, svc)
  /\ IF holder[Port(s, svc)] = Nobody /\ ~Misled(s, svc)
     THEN /\ child' = [child EXCEPT ![s][svc] = "up"]
          /\ holder' = [holder EXCEPT ![Port(s, svc)] = <<s, svc>>]
     ELSE /\ child' = [child EXCEPT ![s][svc] = "dead"]
          /\ UNCHANGED holder
  /\ UNCHANGED <<taskVars, attached, nameOf, deaths>>

\* from_docker: whatever container has the name is removed first, ...
ClearName(s, svc) ==
  /\ child[s][svc] = "clearing"
  /\ LET owners == {t \in Sessions : nameOf[svc] = t}
     IN /\ child' = [t \in Sessions |->
             IF t \in owners THEN [child[t] EXCEPT ![svc] = "dead"]
             ELSE IF t = s THEN [child[s] EXCEPT ![svc] = "creating"]
             ELSE child[t]]
        /\ holder' = Released(owners \X {svc})
  /\ nameOf' = [nameOf EXCEPT ![svc] = Nobody]
  /\ UNCHANGED <<taskVars, attached, deaths>>

\* ... then the container is created and started, which fails when the name
\* or the published port was taken in the meantime.
CreateContainer(s, svc) ==
  /\ child[s][svc] = "creating"
  /\ IF nameOf[svc] = Nobody /\ holder[Port(s, svc)] = Nobody
     THEN /\ child' = [child EXCEPT ![s][svc] = "starting"]
          /\ attached' = [attached EXCEPT ![s][svc] = TRUE]
          /\ nameOf' = [nameOf EXCEPT ![svc] = s]
          /\ holder' = [holder EXCEPT ![Port(s, svc)] = <<s, svc>>]
     ELSE /\ child' = [child EXCEPT ![s][svc] = "failed"]
          /\ UNCHANGED <<attached, nameOf, holder>>
  /\ UNCHANGED <<taskVars, deaths>>

\* The program inside the container answers.
ContainerReady(s, svc) ==
  /\ child[s][svc] = "starting" /\ IsContainer(s, svc)
  /\ child' = [child EXCEPT ![s][svc] = "up"]
  /\ UNCHANGED <<taskVars, attached, holder, nameOf, deaths>>

\* A child exits by itself (_handleOnExit only logs it; an auto-removed
\* container gives its name back), or cannot be spawned or created at all.
Die(s, svc) ==
  /\ deaths < MaxDeaths
  /\ child[s][svc] \in Alive
  /\ deaths' = deaths + 1
  /\ child' = [child EXCEPT ![s][svc] = "dead"]
  /\ holder' = Released({<<s, svc>>})
  /\ nameOf' = IF IsContainer(s, svc) THEN [nameOf EXCEPT ![svc] = Nobody]
                                      ELSE nameOf
  /\ UNCHANGED <<taskVars, attached>>

CannotLaunch(s, svc) ==
  /\ deaths < MaxDeaths
  /\ \/ child[s][svc] = "creating"
     \/ child[s][svc] = "starting" /\ ~IsContainer(s, svc)
  /\ deaths' = deaths + 1
  /\ child' = [child EXCEPT ![s][svc] = "failed"]
  /\ UNCHANGED <<taskVars, attached, holder, nameOf>>

-----------------------------------------------------------------------------
(* Waiting, working, stopping. *)

\* The promise of listen(blockProcess = false): a process counts as launched
\* when spawned, a container when it runs; the first rejection wins.
Launch(s) ==
  /\ pc[s] = "launching"
  /\ \/ /\ \A svc \in Awaited(s) : attached[s][svc]
        /\ Goto(s, "pollNode")
     \/ /\ \E svc \in Awaited(s) : IsContainer(s, svc)
                                     /\ child[s][svc] = "failed"
        /\ FailEarly(s)
  /\ UNCHANGED <<request, probed, attempts, childVars>>

\* Mutants: one attempt too many; attempts are not counted.
PollOnceMore(s, port, next) ==
  \/ Answers(port) /\ Goto(s, next) /\ UNCHANGED attempts
  \/ /\ ~Answers(port)
     /\ attempts' = [attempts EXCEPT ![s] = @ - 1]
     /\ IF attempts[s] >= 0 THEN UNCHANGED <<pc, outcome>> ELSE FailEarly(s)
PollForever(s, port, next) ==
  Answers(port) /\ Goto(s, next) /\ UNCHANGED attempts

\* waitForServiceToBeReady: one request; ready at the first answer.  It has no
\* timeout: one that is accepted and never answered is the last (MayWait).
Poll(s, port, next) ==
  \/ /\ attempts[s] > 0
     /\ Answers(port)
     /\ attempts' = [attempts EXCEPT ![s] = MaxAttempts]
     /\ Goto(s, next)
  \/ /\ attempts[s] > 0
     /\ ~Answers(port)
     /\ attempts' = [attempts EXCEPT ![s] = @ - 1]
     /\ UNCHANGED <<pc, outcome>>
  \/ /\ attempts[s] = 0
     /\ FailEarly(s)
     /\ UNCHANGED attempts

\* substrateNodeService.waitForNodeToBeReady(), in every mode.
PollNode(s) ==
  /\ pc[s] = "pollNode"
  /\ Poll(s, Port(s, "substrate"),
          IF Plan(s).pollAdapter THEN "pollAdapter" ELSE "setup")
  /\ UNCHANGED <<request, probed, childVars>>

\* ethRpcService.waitForEthRpcToBeReady(), in tests without anvil.
PollAdapter(s) ==
  /\ pc[s] = "pollAdapter"
  /\ Poll(s, Port(s, "adapter"), "setup")
  /\ UNCHANGED <<request, probed, childVars>>

\* configureNetwork and the test environment, or the environment of the
\* script: the node at Plan(s).network is used from here on.
SetUp(s) ==
  /\ pc[s] = "setup"
  /\ Goto(s, "working") \/ (Entry(s) # "run" /\ FailEarly(s))
  /\ UNCHANGED <<request, probed, attempts, childVars>>

\* The tests, the script or the wrapped task end, well or not.
Finish(s) ==
  /\ pc[s] = "working"
  /\ \E result \in {"ok", "failed"} :
        outcome' = [outcome EXCEPT ![s] = result]
  /\ pc' = [pc EXCEPT ![s] = "stopping"]
  /\ UNCHANGED <<request, probed, attempts, childVars>>

\* Mutants: containers are left to auto-removal; a failed removal is ignored.
StoppedProcesses(s) ==
  {svc \in Services : attached[s][svc] /\ ~IsContainer(s, svc)}
RemovalNeverRejects(s) == FALSE

\* Promise.all of the three stop(): processes are killed, containers removed;
\* removing a container that is no longer there rejects.
Stopped(s) == {svc \in Services : attached[s][svc]}

RemovalRejects(s) ==
  \E svc \in Stopped(s) : IsContainer(s, svc) /\ child[s][svc] = "dead"

Stop(s) ==
  /\ pc[s] = "stopping"
  /\ child' = [child EXCEPT ![s] =
       [svc \in Services |->
          IF svc \in Stopped(s) THEN "dead" ELSE child[s][svc]]]
  /\ holder' = Released({s} \X Stopped(s))
  /\ nameOf' = [svc \in Services |->
       IF nameOf[svc] = s /\ svc \in Stopped(s) THEN Nobody ELSE nameOf[svc]]
  /\ IF ~RemovalRejects(s) THEN Goto(s, "settled")
     ELSE IF Entry(s) = "run"
     THEN \* the listener of "close" rejects, and resolve() is never called
          Goto(s, "hung")
     ELSE Settle(s, "failed")
  /\ UNCHANGED <<request, probed, attempts, attached, deaths>>

\* listen() of the node task blocks: until every awaited container has ended,
\* or a service cannot be launched.  A process that exits changes nothing.
EndBlocking(s) ==
  /\ pc[s] = "blocking"
  /\ \/ /\ Awaited(s) \subseteq Containers(Mode(s))
        /\ \A svc \in Awaited(s) : child[s][svc] = "dead"
        /\ Settle(s, "ok")
     \/ /\ \E svc \in Awaited(s) : child[s][svc] = "failed"
        /\ Settle(s, "failed")
  /\ UNCHANGED <<request, probed, attempts, childVars>>

-----------------------------------------------------------------------------

TaskStep(s) ==
  \/ Begin(s) \/ ProbeNode(s) \/ ProbeAdapter(s)
  \/ Listen(s) \/ RejectConfig(s) \/ Launch(s)
  \/ PollNode(s) \/ PollAdapter(s) \/ SetUp(s) \/ Finish(s)
  \/ Stop(s) \/ EndBlocking(s)

ChildStep(s, svc) ==
  \/ Bind(s, svc)
  \/ ClearName(s, svc) \/ CreateContainer(s, svc) \/ ContainerReady(s, svc)

Next ==
  \E s \in Sessions :
    \/ TaskStep(s)
    \/ \E svc \in Services :
         ChildStep(s, svc) \/ Die(s, svc) \/ CannotLaunch(s, svc)

Spec == Init /\ [][Next]_vars

\* The task awaits an answer that may never come: the request of a poll, or
\* configureNetwork's, has no timeout, and somebody listens on its port.  Where
\* nobody does it is refused.
MayWait(s) ==
  \/ pc[s] = "pollNode" /\ attempts[s] > 0
       /\ holder[Port(s, "substrate")] # Nobody
  \/ pc[s] = "pollAdapter" /\ attempts[s] > 0
       /\ holder[Port(s, "adapter")] # Nobody
  \/ pc[s] = "setup" /\ Entry(s) # "run" /\ holder[Plan(s).network] # Nobody

\* A task goes on as long as it can, its tests or script end, and docker
\* answers.  Children need not ever come up: the polls are bounded.  But nobody
\* need answer on a port that is held.
Fairness ==
  /\ \A s \in Sessions : WF_vars(~MayWait(s) /\ TaskStep(s))
  /\ \A s \in Sessions, svc \in Services :
       WF_vars(ClearName(s, svc) \/ CreateContainer(s, svc))

FairSpec == Spec /\ Fairness

-----------------------------------------------------------------------------
(* Properties. *)

Launches(s) == {svc \in Services : child[s][svc] # "none"}

Down(s) ==
  \A svc \in Services : child[s][svc] \in {"none", "failed", "dead"}

\* The ports that were polled before the session started to work.
PolledServices(s) ==
  {"substrate"} \cup (IF Plan(s).pollAdapter THEN {"adapter"} ELSE {})

\* waitForNodeToBeReady and waitForEthRpcToBeReady: no test, script or task
\* starts while a service it waited for is still coming up (a single session:
\* another session's server on the same port would answer in its place, and
\* with forking switched off so would its own adapter).
WorksOnlyWhenUp ==
  \A s \in Sessions : pc[s] = "working" =>
    \A svc \in PolledServices(s) :
      child[s][svc] = "starting" /\ ~Misled(s, svc)
        => holder[Port(s, svc)] = Foreign

\* "Adapter and node cannot share the same port.": the services a test starts
\* never fight over a port, wherever the two searches ended; unless forking is
\* switched off, when the node does not learn the port that was compared.
TestServicesHaveOwnPorts ==
  \A s \in Sessions : Entry(s) = "test" /\ Config(s).forking # "disabled" =>
    \A a, b \in Launches(s) : Port(s, a) = Port(s, b) => a = b

\* --node-rpc-url and the argument of from_docker: the adapter is pointed at
\* the port its own session's node listens on, for every task and every mode
\* (a node with the command line of chopsticks listens on none).
AdapterPointsAtNode ==
  \A s \in Sessions : \A svc \in Launches(s) \ {"adapter"} :
    "adapter" \in Launches(s) /\ ~Misled(s, svc) =>
      Plan(s).upstream = Port(s, svc)

\* configureNetwork: tests that use the adapter are sent to the adapter their
\* own session started (a single session in which no child died).
TestsReachOwnAdapter ==
  \A s \in Sessions :
    pc[s] = "working" /\ Plan(s).pollAdapter /\ deaths = 0
      => holder[Plan(s).network] = <<s, "adapter">>

\* "Port where the adapter will listen on - default: 8545": a task that works
\* is sent to a port that a service of its own session listens on.
NetworkIsServed ==
  \A s \in Sessions :
    pc[s] = "working" /\ deaths = 0
      => \E svc \in Services : holder[Plan(s).network] = <<s, svc>>

\* stop() in the finally blocks: a task that succeeded, and a wrapped task
\* that ended in any way, leaves no process and no container behind, even when
\* children died, failed or were still starting.
StopLeavesNothing ==
  \A s \in Sessions :
    /\ pc[s] = "settled"
    /\ Entry(s) = "wrap" \/ (Entry(s) \in {"test", "run"} /\ outcome[s] = "ok")
    => Down(s)

\* "remove container when process exits": a Hardhat process that is over left
\* no container running.
ContainersEndWithProcess ==
  \A s \in Sessions : pc[s] = "settled" =>
    \A svc \in Services : IsContainer(s, svc) => child[s][svc] \notin Alive

\* A test that passed had its own container until the end: a container that
\* another session took away, or that died, turns success into an error.
LostContainerIsNoticed ==
  [][\A s \in Sessions :
       pc[s] = "stopping" /\ pc'[s] = "settled" /\ outcome'[s] = "ok"
       => \A svc \in Launches(s) : IsContainer(s, svc) =>
            nameOf[svc] = s /\ nameOf'[svc] = Nobody]_vars

\* Every test, script and wrapped task that needs a node ends, whichever
\* services come up or die; unless it waits for ever for the answer of a
\* program that listens on the port it asks, or is a script whose stop was
\* rejected because its container was gone.
EverySessionSettles ==
  \A s \in Sessions :
    pc[s] = "probeNode" ~>
      \/ pc[s] = "settled"
      \/ []MayWait(s)
      \/ /\ pc[s] = "hung" /\ Entry(s) = "run"
         /\ \E svc \in Services : IsContainer(s, svc) /\ child[s][svc] = "dead"
==============================================================================
