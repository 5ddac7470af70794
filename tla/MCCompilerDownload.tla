------------------------- MODULE MCCompilerDownload -------------------------
(* Small instances of CompilerDownload for TLC. *)
EXTENDS CompilerDownload, TLC

CONSTANTS v1, v2, c1, c2, t1, t2, t3

MCVersions == {v1, v2}
MCCommits == {c1, c2}
MCCommit == v1 :> c1 @@ v2 :> c2
TwoTasks == {t1, t2}
ThreeTasks == {t1, t2, t3}

\* Both binaries run; the second cannot be started; the second starts and
\* exits with an error.
AllRun == v1 :> "runs" @@ v2 :> "runs"
OneUnspawnable == v1 :> "runs" @@ v2 :> "spawnThrows"
OneBroken == v1 :> "runs" @@ v2 :> "exitsWithError"

TaskSymmetry == Permutations(Tasks)
=============================================================================
