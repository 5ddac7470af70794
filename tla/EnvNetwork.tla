----------------------------- MODULE EnvNetwork -----------------------------
(***************************************************************************)
(* The network of one Hardhat environment.  A task that needs a node, run  *)
(* on the hardhat network, starts one and points env.network to it: the    *)
(* object itself is changed, and every other call of a task in the process *)
(* sees it, those its body makes (hre.run) and those that overlap with it. *)
(*                                                                         *)
(* A call is of a task that a plugin gave to interceptAndWrapTasksWithNode *)
(* ("wrapped"; a wrapped subtask is wrapped twice, that is, calls itself)  *)
(* or of hardhat test ("test").  The process is the user's, whose network  *)
(* is Hardhat's simulator at first, or that of a script, which register.ts *)
(* points to the node of its parent.                                       *)
(*                                                                         *)
(* Simplifications: ports, services and their failures are NodeSession's;  *)
(* a node here is one server, which stays up until it is stopped; a body   *)
(* waits for the calls it makes.  A request that is never answered is a    *)
(* step that is not taken.                                                 *)
(***************************************************************************)
EXTENDS Naturals

CONSTANTS
  Calls,     \* calls of tasks in one process
  Kinds,     \* the tasks called
  User,      \* the caller of a call that no task's body made
  Parent,    \* the node of the parent process
  Simulator  \* Hardhat's network in the process

ASSUME CallsAssumption ==
  /\ Kinds \subseteq {"wrapped", "test"}
  /\ User \notin Calls
  /\ {Parent, Simulator} \cap Calls = {} /\ Parent # Simulator

VARIABLES
  network,    \* env.network: its name, and the nodes of url and provider
  marked,     \* is global._polkadotNodeNetwork set?
  kind,       \* kind[c]: the task called
  caller,     \* caller[c]: the call whose body made it
  pc,         \* where the call is
  server,     \* server[c]: the node it started
  configured, \* calls that have pointed the network to their node
  result      \* of the call: its body's, or "aborted" before the body began

vars == <<network, marked, kind, caller, pc, server, configured, result>>
callVars == <<kind, caller>>

Nodes == Calls \cup {Parent, Simulator}

Labels == {"idle", "compile", "ports", "launch", "poll", "request", "provider",
           "setup", "body", "passed", "stop", "settled"}

TypeOK ==
  /\ network \in [renamed : BOOLEAN, flagged : BOOLEAN,
                  url : Nodes, provider : Nodes]
  /\ marked \in BOOLEAN
  /\ kind \in [Calls -> Kinds]
  /\ caller \in [Calls -> Calls \cup {User}]
  /\ pc \in [Calls -> Labels]
  /\ server \in [Calls -> {"none", "up", "stopped"}]
  /\ configured \subseteq Calls
  /\ result \in [Calls -> {"none", "ok", "failed", "aborted"}]
  /\ \A c \in Calls : result[c] # "none" <=> pc[c] \in {"stop", "settled"}

\* A fresh environment, or the one register.ts makes: another name and url,
\* the other fields of the configuration kept.
Init ==
  /\ network \in
       {[renamed |-> FALSE, flagged |-> TRUE,
         url |-> Simulator, provider |-> Simulator],
        [renamed |-> TRUE, flagged |-> TRUE,
         url |-> Parent, provider |-> Parent]}
  /\ marked = FALSE
  /\ kind \in [Calls -> Kinds]
  /\ caller = [c \in Calls |-> User]
  /\ pc = [c \in Calls |-> "idle"]
  /\ server = [c \in Calls |-> "none"]
  /\ configured = {}
  /\ result = [c \in Calls |-> "none"]

-----------------------------------------------------------------------------

Running(c) == pc[c] \in {"body", "passed"}

Goto(c, from, to) == pc[c] = from /\ pc' = [pc EXCEPT ![c] = to]

\* Mutant: the name of the network is not asked.
NeedsAnyway(k) == k = "test" => network.flagged

\* hardhat test asks for the flag of the configuration, which configureNetwork
\* drops; a wrapped task for the flag extendEnvironment set, which stays.
NeedsNode(k) == ~network.renamed /\ (k = "test" => network.flagged)

\* hardhat test compiles before it looks at the network.
Call(c, by) ==
  /\ by = User \/ (by \in Calls /\ by # c /\ Running(by))
  /\ caller' = [caller EXCEPT ![c] = by]
  /\ \/ kind[c] = "test" /\ Goto(c, "idle", "compile")
     \/ kind[c] = "wrapped" /\ NeedsNode("wrapped") /\ Goto(c, "idle", "ports")
     \/ kind[c] = "wrapped" /\ ~NeedsNode("wrapped") /\ Goto(c, "idle", "passed")
  /\ UNCHANGED <<network, marked, kind, server, configured, result>>

Compiled(c) ==
  /\ Goto(c, "compile", IF NeedsNode("test") THEN "ports" ELSE "passed")
  /\ UNCHANGED <<network, marked, callVars, server, configured, result>>

\* Mutant: the error is swallowed.
FailSilently(c) ==
  /\ pc' = [pc EXCEPT ![c] = "settled"]
  /\ UNCHANGED <<network, marked, callVars, server, configured, result>>

Fail(c) ==
  /\ pc' = [pc EXCEPT ![c] = "settled"]
  /\ result' = [result EXCEPT ![c] = "aborted"]
  /\ UNCHANGED <<network, marked, callVars, server, configured>>

\* The compile fails, or no port is free.
FailEarly(c) == pc[c] \in {"compile", "ports"} /\ Fail(c)

FindPorts(c) ==
  /\ Goto(c, "ports", "launch")
  /\ UNCHANGED <<network, marked, callVars, server, configured, result>>

Launch(c) ==
  /\ Goto(c, "launch", "poll")
  /\ server' = [server EXCEPT ![c] = "up"]
  /\ UNCHANGED <<network, marked, callVars, configured, result>>

\* The finally of a wrapped task stops the server; the catch of hardhat test
\* around the steps before its tests does not.
GiveUp(c) ==
  IF kind[c] = "test" THEN Fail(c)
  ELSE /\ pc' = [pc EXCEPT ![c] = "stop"]
       /\ result' = [result EXCEPT ![c] = "aborted"]
       /\ UNCHANGED <<network, marked, callVars, server, configured>>

\* A rejected listen, a poll without an answer, or a failing setup of the test
\* environment.  The provider of an http network can always be made.
FailToStart(c) ==
  /\ pc[c] \in {"launch", "poll", "setup"}
  /\ GiveUp(c)

\* The polls ask until one is answered, but a request has no timeout: the one
\* in flight may be the last.
Ready(c) ==
  /\ Goto(c, "poll", "request")
  /\ UNCHANGED <<network, marked, callVars, server, configured, result>>

\* After the request for the chain id, answered or refused; it has no timeout
\* either.  Three assignments, and the provider is awaited.
Configure(c) ==
  /\ Goto(c, "request", "provider")
  /\ network' = [network EXCEPT !.renamed = TRUE, !.flagged = FALSE, !.url = c]
  /\ UNCHANGED <<marked, callVars, server, configured, result>>

\* env.injectToGlobal and the global mark are a wrapped task's.
SetProvider(c) ==
  /\ Goto(c, "provider", IF kind[c] = "test" THEN "setup" ELSE "body")
  /\ network' = [network EXCEPT !.provider = c]
  /\ marked' = (marked \/ kind[c] = "wrapped")
  /\ configured' = configured \cup {c}
  /\ UNCHANGED <<callVars, server, result>>

SetUpTests(c) ==
  /\ Goto(c, "setup", "body")
  /\ UNCHANGED <<network, marked, callVars, server, configured, result>>

\* Mutant: calls that are over are waited for.
CallsEver(c) == {d \in Calls : caller[d] = c}

CallsOf(c) == {d \in Calls : caller[d] = c /\ pc[d] # "settled"}

\* Mutant: the mark is kept.
KeepMark(c, r) == UNCHANGED marked

\* The mark is deleted when the body succeeds, whoever set it.
Unmark(c, r) ==
  marked' = (marked /\ ~(kind[c] = "wrapped" /\ r = "ok"))

\* Mutant: the stop of hardhat test is not in a finally.
EndBodyUnguarded(c) ==
  \E r \in {"ok", "failed"} :
    /\ CallsOf(c) = {}
    /\ Goto(c, "body",
            IF kind[c] = "test" /\ r = "failed" THEN "settled" ELSE "stop")
    /\ result' = [result EXCEPT ![c] = r]
    /\ Unmark(c, r)
    /\ UNCHANGED <<network, callVars, server, configured>>

\* The body ends; env.network is set to the object that it is already.
EndBody(c) ==
  \E r \in {"ok", "failed"} :
    /\ CallsOf(c) = {}
    /\ Goto(c, "body", "stop")
    /\ result' = [result EXCEPT ![c] = r]
    /\ Unmark(c, r)
    /\ UNCHANGED <<network, callVars, server, configured>>

EndPassed(c) ==
  \E r \in {"ok", "failed"} :
    /\ CallsOf(c) = {}
    /\ Goto(c, "passed", "settled")
    /\ result' = [result EXCEPT ![c] = r]
    /\ UNCHANGED <<network, marked, callVars, server, configured>>

Stop(c) ==
  /\ Goto(c, "stop", "settled")
  /\ server' = [server EXCEPT ![c] = "stopped"]
  /\ UNCHANGED <<network, marked, callVars, configured, result>>

Proceed(c) ==
  \/ Compiled(c) \/ FailEarly(c) \/ FindPorts(c) \/ Launch(c)
  \/ FailToStart(c) \/ Ready(c) \/ Configure(c) \/ SetProvider(c)
  \/ SetUpTests(c) \/ EndBody(c) \/ EndPassed(c) \/ Stop(c)

Next ==
  \E c \in Calls : Proceed(c) \/ \E by \in Calls \cup {User} : Call(c, by)

Spec == Init /\ [][Next]_vars

\* The call awaits a server's answer: axios.post without a timeout.
Waits(c) == pc[c] \in {"poll", "request"}

\* Bodies end, and so does what is done to start and stop a server.  That a
\* server answers is not assumed.
FairSpec == Spec /\ \A c \in Calls : WF_vars(~Waits(c) /\ Proceed(c))

-----------------------------------------------------------------------------
(* Properties. *)

Up(n) == n = Parent \/ (n \in Calls /\ server[n] = "up")

\* d ended after it had pointed the network to its node.
Ended(d) == d \in configured /\ pc[d] \in {"stop", "settled"}

\* While the body of a task that needs a node runs, the provider leads to a
\* node that is up: its own, its caller's or its parent process's, never the
\* simulator; whatever calls its body makes and whatever start failed before.
\* Unless a call that it did not make has configured the network and ended, or
\* another call is in the middle of configureNetwork: the name says that a
\* node is there before the provider does.
ServedWhileRunning ==
  \A c \in Calls :
    Running(c) =>
      \/ Up(network.provider)
      \/ \E d \in Calls \ {c} :
           \/ pc[d] = "provider"
           \/ Ended(d) /\ caller[d] # c

\* When a call is settled its server is stopped, whichever step failed and
\* whether the body succeeded or not; but not that of a hardhat test whose
\* tests never began.
ServersStop ==
  \A c \in Calls :
    pc[c] = "settled" /\ server[c] = "up" =>
      kind[c] = "test" /\ result[c] = "aborted"

\* The global mark stands for a wrapped task that runs; only a body that
\* failed leaves it.
MarkMeansRunning ==
  marked => \E c \in configured :
              kind[c] = "wrapped" /\ (pc[c] = "body" \/ result[c] = "failed")

\* Every call settles, or waits for ever for an answer of the node that it
\* started itself: the calls that a body makes wait for no node, so that one
\* whose body began settles.
EveryCallSettles ==
  \A c \in Calls : (pc[c] # "idle") ~> (pc[c] = "settled" \/ []Waits(c))
=============================================================================
