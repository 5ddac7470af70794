-------------------------- MODULE EnvNetworkProofs --------------------------
(***************************************************************************)
(* Proofs about EnvNetwork, for any number of calls.  The argument rests   *)
(* on the name of the network: it changes once and for all at the first    *)
(* configureNetwork, every task that runs saw it changed, and so the calls *)
(* a body makes start no node of their own (Nested).                       *)
(***************************************************************************)
EXTENDS EnvNetwork, TLAPS

\* Before the first configureNetwork nobody runs and nobody has a provider.
Fresh ==
  ~network.renamed =>
    /\ network.flagged /\ configured = {}
    /\ \A c \in Calls : pc[c] \notin {"provider", "setup", "body", "passed"}

\* Where a call is, its node and whether it configured the network.
Stages ==
  \A c \in Calls :
    /\ pc[c] \in {"idle", "compile", "ports", "launch", "passed"} =>
         server[c] = "none" /\ c \notin configured
    /\ pc[c] \in {"poll", "request", "provider"} =>
         server[c] = "up" /\ c \notin configured
    /\ pc[c] \in {"setup", "body"} => server[c] = "up" /\ c \in configured
    /\ pc[c] = "stop" /\ c \in configured => server[c] = "up"

\* After it, the provider is the parent's or that of a call that configured
\* the network, unless one is just doing so.
Pointed ==
  network.renamed =>
    \/ network.provider = Parent \/ network.provider \in configured
    \/ \E d \in Calls : pc[d] = "provider"

\* A call that a body made has found the name changed.
Nested ==
  \A c \in Calls :
    caller[c] \in Calls =>
      /\ network.renamed /\ c \notin configured
      /\ pc[c] \in {"compile", "passed", "settled"}

IInv == TypeOK /\ Fresh /\ Stages /\ Pointed /\ Nested /\ ServersStop
               /\ MarkMeansRunning
-----------------------------------------------------------------------------
(* Every step keeps the invariant. *)

LEMMA InitInv == Init => IInv
<1>. SUFFICES ASSUME Init PROVE IInv
  OBVIOUS
<1>. USE CallsAssumption DEF Init
<1>1. network \in [renamed : BOOLEAN, flagged : BOOLEAN,
                   url : Nodes, provider : Nodes]
  <2>1. {Simulator, Parent} \subseteq Nodes
    BY DEF Nodes
  <2>2. \A n \in Nodes, b \in BOOLEAN :
          [renamed |-> b, flagged |-> TRUE, url |-> n, provider |-> n]
            \in [renamed : BOOLEAN, flagged : BOOLEAN,
                 url : Nodes, provider : Nodes]
    OBVIOUS
  <2>. QED BY <2>1, <2>2
<1>2. TypeOK
  BY <1>1 DEF TypeOK, Labels
<1>3. Fresh /\ Stages /\ Nested /\ ServersStop /\ MarkMeansRunning
  BY DEF Fresh, Stages, Nested, ServersStop, MarkMeansRunning
<1>4. Pointed
  BY DEF Pointed
<1>. QED BY <1>2, <1>3, <1>4 DEF IInv

\* A body that calls runs, so the name was changed before.
LEMMA CallStep ==
  ASSUME IInv, NEW c \in Calls, NEW by \in Calls \cup {User}, Call(c, by)
  PROVE  IInv'
<1>. USE CallsAssumption DEF IInv, Call, Goto, Running, NeedsNode
<1>1. TypeOK'
  BY DEF TypeOK, Labels
<1>2. Fresh' /\ Stages'
  BY DEF TypeOK, Fresh, Stages
<1>3. Pointed'
  BY DEF TypeOK, Pointed
<1>4. Nested'
  BY DEF TypeOK, Fresh, Stages, Nested
<1>5. ServersStop' /\ MarkMeansRunning'
  BY DEF TypeOK, ServersStop, MarkMeansRunning
<1>. QED BY <1>1, <1>2, <1>3, <1>4, <1>5

LEMMA ProceedStep ==
  ASSUME IInv, NEW c \in Calls, Proceed(c)
  PROVE  IInv'
<1>. USE CallsAssumption DEF IInv, callVars
<1>1. CASE Compiled(c)
  <2>1. TypeOK' /\ Fresh' /\ Stages'
    BY <1>1 DEF TypeOK, Fresh, Stages, Labels, Nodes, Compiled, Goto, NeedsNode
  <2>2. Pointed' /\ Nested'
    BY <1>1 DEF TypeOK, Fresh, Stages, Pointed, Nested, Compiled, Goto, NeedsNode
  <2>3. ServersStop' /\ MarkMeansRunning'
    BY <1>1 DEF TypeOK, Stages, ServersStop, MarkMeansRunning, Compiled, Goto, NeedsNode
  <2>. QED BY <2>1, <2>2, <2>3
<1>2. CASE FailEarly(c)
  <2>1. TypeOK' /\ Fresh' /\ Stages'
    BY <1>2 DEF TypeOK, Fresh, Stages, Labels, Nodes, FailEarly, Fail
  <2>2. Pointed' /\ Nested'
    BY <1>2 DEF TypeOK, Fresh, Stages, Pointed, Nested, FailEarly, Fail
  <2>3. ServersStop' /\ MarkMeansRunning'
    BY <1>2 DEF TypeOK, Stages, ServersStop, MarkMeansRunning, FailEarly, Fail
  <2>. QED BY <2>1, <2>2, <2>3
<1>3. CASE FindPorts(c)
  <2>1. TypeOK' /\ Fresh' /\ Stages'
    BY <1>3 DEF TypeOK, Fresh, Stages, Labels, Nodes, FindPorts, Goto
  <2>2. Pointed' /\ Nested'
    BY <1>3 DEF TypeOK, Fresh, Stages, Pointed, Nested, FindPorts, Goto
  <2>3. ServersStop' /\ MarkMeansRunning'
    BY <1>3 DEF TypeOK, Stages, ServersStop, MarkMeansRunning, FindPorts, Goto
  <2>. QED BY <2>1, <2>2, <2>3
<1>4. CASE Launch(c)
  <2>1. TypeOK' /\ Fresh' /\ Stages'
    BY <1>4 DEF TypeOK, Fresh, Stages, Labels, Nodes, Launch, Goto
  <2>2. Pointed' /\ Nested'
    BY <1>4 DEF TypeOK, Fresh, Stages, Pointed, Nested, Launch, Goto
  <2>3. ServersStop' /\ MarkMeansRunning'
    BY <1>4 DEF TypeOK, Stages, ServersStop, MarkMeansRunning, Launch, Goto
  <2>. QED BY <2>1, <2>2, <2>3
<1>5. CASE Ready(c)
  <2>1. TypeOK' /\ Fresh' /\ Stages'
    BY <1>5 DEF TypeOK, Fresh, Stages, Labels, Nodes, Ready, Goto
  <2>2. Pointed' /\ Nested'
    BY <1>5 DEF TypeOK, Fresh, Stages, Pointed, Nested, Ready, Goto
  <2>3. ServersStop' /\ MarkMeansRunning'
    BY <1>5 DEF TypeOK, Stages, ServersStop, MarkMeansRunning, Ready, Goto
  <2>. QED BY <2>1, <2>2, <2>3
<1>6. CASE SetUpTests(c)
  <2>1. TypeOK' /\ Fresh' /\ Stages'
    BY <1>6 DEF TypeOK, Fresh, Stages, Labels, Nodes, SetUpTests, Goto
  <2>2. Pointed' /\ Nested'
    BY <1>6 DEF TypeOK, Fresh, Stages, Pointed, Nested, SetUpTests, Goto
  <2>3. ServersStop' /\ MarkMeansRunning'
    BY <1>6 DEF TypeOK, Stages, ServersStop, MarkMeansRunning, SetUpTests, Goto
  <2>. QED BY <2>1, <2>2, <2>3
<1>7. CASE EndPassed(c)
  <2>1. TypeOK' /\ Fresh' /\ Stages'
    BY <1>7 DEF TypeOK, Fresh, Stages, Labels, Nodes, EndPassed, Goto
  <2>2. Pointed' /\ Nested'
    BY <1>7 DEF TypeOK, Fresh, Stages, Pointed, Nested, EndPassed, Goto
  <2>3. ServersStop' /\ MarkMeansRunning'
    BY <1>7 DEF TypeOK, Stages, ServersStop, MarkMeansRunning, EndPassed, Goto
  <2>. QED BY <2>1, <2>2, <2>3
<1>8. CASE Stop(c)
  <2>1. TypeOK' /\ Fresh' /\ Stages'
    BY <1>8 DEF TypeOK, Fresh, Stages, Labels, Nodes, Stop, Goto
  <2>2. Pointed' /\ Nested'
    BY <1>8 DEF TypeOK, Fresh, Stages, Pointed, Nested, Stop, Goto
  <2>3. ServersStop' /\ MarkMeansRunning'
    BY <1>8 DEF TypeOK, Stages, ServersStop, MarkMeansRunning, Stop, Goto
  <2>. QED BY <2>1, <2>2, <2>3
<1>9. CASE FailToStart(c)
  <2>1. TypeOK' /\ Fresh' /\ Stages'
    BY <1>9 DEF TypeOK, Fresh, Stages, Labels, FailToStart, GiveUp, Fail
  <2>2. Pointed' /\ Nested'
    BY <1>9 DEF TypeOK, Pointed, Nested, FailToStart, GiveUp, Fail
  <2>3. ServersStop'
    BY <1>9 DEF TypeOK, ServersStop, FailToStart, GiveUp, Fail
  <2>4. MarkMeansRunning'
    <3>. SUFFICES ASSUME marked
                  PROVE  \E d \in configured :
                           kind[d] = "wrapped"
                             /\ (pc'[d] = "body" \/ result'[d] = "failed")
      BY <1>9 DEF MarkMeansRunning, FailToStart, GiveUp, Fail
    <3>1. PICK d \in configured :
            kind[d] = "wrapped" /\ (pc[d] = "body" \/ result[d] = "failed")
      BY DEF MarkMeansRunning
    <3>. QED BY <1>9, <3>1 DEF TypeOK, FailToStart, GiveUp, Fail
  <2>. QED BY <2>1, <2>2, <2>3, <2>4
<1>10. CASE Configure(c)
  <2>1. network' = [renamed |-> TRUE, flagged |-> FALSE, url |-> c,
                    provider |-> network.provider]
    BY <1>10 DEF TypeOK, Configure
  <2>2. TypeOK'
    <3>1. network' \in [renamed : BOOLEAN, flagged : BOOLEAN,
                        url : Nodes, provider : Nodes]
      BY <2>1 DEF TypeOK, Nodes
    <3>. QED BY <1>10, <3>1 DEF TypeOK, Labels, Configure, Goto
  <2>3. Fresh' /\ Stages'
    BY <1>10, <2>1 DEF TypeOK, Fresh, Stages, Configure, Goto
  <2>4. Pointed' /\ Nested'
    BY <1>10, <2>1 DEF TypeOK, Pointed, Nested, Configure, Goto
  <2>5. ServersStop' /\ MarkMeansRunning'
    BY <1>10 DEF TypeOK, ServersStop, MarkMeansRunning, Configure, Goto
  <2>. QED BY <2>2, <2>3, <2>4, <2>5
<1>11. CASE SetProvider(c)
  <2>1. TypeOK' /\ Fresh' /\ Stages'
    BY <1>11 DEF TypeOK, Fresh, Stages, Labels, Nodes, SetProvider, Goto
  <2>2. Pointed' /\ Nested'
    BY <1>11 DEF TypeOK, Pointed, Nested, SetProvider, Goto
  <2>3. ServersStop'
    BY <1>11 DEF TypeOK, ServersStop, SetProvider, Goto
  <2>4. MarkMeansRunning'
    BY <1>11 DEF TypeOK, MarkMeansRunning, SetProvider, Goto
  <2>. QED BY <2>1, <2>2, <2>3, <2>4
<1>12. CASE EndBody(c)
  <2>. PICK r \in {"ok", "failed"} :
         /\ Goto(c, "body", "stop")
         /\ result' = [result EXCEPT ![c] = r]
         /\ Unmark(c, r)
         /\ UNCHANGED <<network, callVars, server, configured>>
    BY <1>12 DEF EndBody
  <2>1. TypeOK' /\ Fresh' /\ Stages'
    BY DEF TypeOK, Fresh, Stages, Labels, Goto, Unmark
  <2>2. Pointed' /\ Nested'
    BY DEF TypeOK, Pointed, Nested, Goto
  <2>3. ServersStop'
    BY DEF TypeOK, ServersStop, Goto
  <2>4. MarkMeansRunning'
    <3>. SUFFICES ASSUME marked'
                  PROVE  \E d \in configured' :
                           kind'[d] = "wrapped"
                             /\ (pc'[d] = "body" \/ result'[d] = "failed")
      BY DEF MarkMeansRunning
    <3>1. marked /\ ~(kind[c] = "wrapped" /\ r = "ok")
      BY DEF Unmark
    <3>2. PICK d \in configured :
            kind[d] = "wrapped" /\ (pc[d] = "body" \/ result[d] = "failed")
      BY <3>1 DEF MarkMeansRunning
    <3>. QED BY <3>1, <3>2 DEF TypeOK, Goto
  <2>. QED BY <2>1, <2>2, <2>3, <2>4
<1>. QED BY <1>1, <1>2, <1>3, <1>4, <1>5, <1>6, <1>7, <1>8, <1>9, <1>10, <1>11, <1>12 DEF Proceed

LEMMA StepInv == IInv /\ [Next]_vars => IInv'
<1>. SUFFICES ASSUME IInv, [Next]_vars PROVE IInv'
  OBVIOUS
<1>1. CASE Next
  BY <1>1, CallStep, ProceedStep DEF Next
<1>2. CASE UNCHANGED vars
  BY <1>2 DEF IInv, vars, TypeOK, Fresh, Stages, Pointed, Nested, ServersStop,
     MarkMeansRunning
<1>. QED BY <1>1, <1>2

LEMMA Invariant == Spec => []IInv
BY InitInv, StepInv, PTL DEF Spec

-----------------------------------------------------------------------------
(* What follows from it. *)

\* Every variable keeps its type.
THEOREM TypeCorrect == Spec => []TypeOK
BY Invariant, PTL DEF IInv

\* A task that needs a node runs against one that is up, with the exceptions
\* that ServedWhileRunning names.
THEOREM Served == Spec => []ServedWhileRunning
<1>1. IInv => ServedWhileRunning
  <2>. SUFFICES ASSUME IInv, NEW c \in Calls, Running(c),
                       ~Up(network.provider),
                       \A d \in Calls : pc[d] # "provider"
                PROVE  \E d \in Calls \ {c} : Ended(d) /\ caller[d] # c
    BY DEF ServedWhileRunning, Running
  <2>1. network.renamed
    BY DEF IInv, Fresh, Running
  <2>2. network.provider \in configured
    BY <2>1 DEF IInv, Pointed, Up
  <2>3. PICK d \in configured : d = network.provider
    BY <2>2
  <2>4. d \in Calls /\ server[d] # "up"
    BY <2>3 DEF Up, IInv, TypeOK
  <2>5. pc[d] = "settled"
    BY <2>4 DEF IInv, TypeOK, Stages, Labels
  <2>6. caller[d] # c
    BY <2>4 DEF IInv, Nested
  <2>. QED BY <2>4, <2>5, <2>6 DEF Ended, Running
<1>. QED BY <1>1, Invariant, PTL

\* What was started is stopped when its call settles, with the exception that
\* ServersStop names.
THEOREM NothingLeft == Spec => []ServersStop
BY Invariant, PTL DEF IInv

\* The global mark is a running task's, or that of one that failed.
THEOREM MarkSound == Spec => []MarkMeansRunning
BY Invariant, PTL DEF IInv
=============================================================================
