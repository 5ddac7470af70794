---------------------------- MODULE MCNodeSession ----------------------------
(* Small instances of NodeSession for TLC. *)
EXTENDS NodeSession

CONSTANTS s1, s2

OneSession == {s1}
TwoSessions == {s1, s2}

\* The first ports the searches try, and one more each.
MCPorts == {8545, 8546, 9944, 9945}
MCForeignPorts == {8545, 9944}

\* Every combination of the switches; ports left out, moved, or set to the
\* other service's default.
AllConfigs ==
  [useAnvil : BOOLEAN, nodeBinary : BOOLEAN, adapterBinary : BOOLEAN,
   docker : BOOLEAN, forking : {"none", "enabled", "disabled"},
   rpcPort : {Unset, 9945, 8545}, adapterPort : {Unset, 9944}]

AllRequests == [entry : Entries, config : AllConfigs]

\* The default configuration and the ways to change it that matter when two
\* sessions meet: containers or binaries, anvil or node and adapter.
Default ==
  [useAnvil |-> TRUE, nodeBinary |-> FALSE, adapterBinary |-> FALSE,
   docker |-> FALSE, forking |-> "none", rpcPort |-> Unset,
   adapterPort |-> Unset]
AnvilBinary == [Default EXCEPT !.nodeBinary = TRUE]
LegacyBinary ==
  [Default EXCEPT !.useAnvil = FALSE, !.nodeBinary = TRUE,
                  !.adapterBinary = TRUE]
LegacyDocker == [Default EXCEPT !.useAnvil = FALSE, !.docker = TRUE]

MeetingRequests ==
  [entry : {"test"}, config : {Default, LegacyBinary, LegacyDocker}]
    \cup [entry : {"run"}, config : {Default}]

\* The requests of the runs that look for one disagreement.
AnvilOnOtherPort ==
  [entry : {"test"}, config : {[AnvilBinary EXCEPT !.adapterPort = 8546]}]
DefaultTest == [entry : {"test"}, config : {Default}]
=============================================================================
