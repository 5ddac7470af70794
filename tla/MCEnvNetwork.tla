---------------------------- MODULE MCEnvNetwork ----------------------------
(* Small instances of EnvNetwork for TLC. *)
EXTENDS EnvNetwork

CONSTANTS c1, c2, c3

ThreeCalls == {c1, c2, c3}
AllKinds == {"wrapped", "test"}
=============================================================================
