------------------------- MODULE CompilerCacheProofs -------------------------
(***************************************************************************)
(* The cache of compilers implements its abstract specification            *)
(* CompilerCache, for any number of processes and versions: every step is  *)
(* a step of the abstract cache or none, until a process dies at work on   *)
(* a list or a binary or is too slow for the mutex.                        *)
(***************************************************************************)
EXTENDS CompilerDownloadProofs


\* Nobody died between the removal of a list and the end of post-processing,
\* and no owner of the mutex was too slow.
Quiet == Undisturbed({"replace", "verify", "post"})

\* A task that was not asked yet wants nothing.
IdleInv == \A t \in Tasks : pc[t] = "idle" => want[t] = Malformed

LEMMA IdleStep ==
  ASSUME TypeOK, IdleInv, [Next]_vars
  PROVE  IdleInv'
<1>. USE DEF TypeOK, IdleInv, Goto, Finish, Throw, Return
<1>1. ASSUME NEW t \in alive, Start(t) PROVE IdleInv'
  BY <1>1 DEF Start, Request, UseCustomPath
<1>2. ASSUME NEW t \in alive, Work(t) PROVE IdleInv'
  <2>1. want' = want
    BY <1>2 DEF Work, Acquire, CheckDownloaded, LookUpBuild, RefreshFails,
       RemoveOldList, PlaceList, FetchFails, FetchBinary, VerifyBinary,
       PostProcess, FindBuild, OpenCompiler
  <2>2. \A s \in Tasks : pc'[s] = "idle" => pc[s] = "idle"
    BY <1>2 DEF Work, Acquire, CheckDownloaded, LookUpBuild, RefreshFails,
       RemoveOldList, PlaceList, FetchFails, FetchBinary, VerifyBinary,
       PostProcess, FindBuild, OpenCompiler
  <2>. QED BY <2>1, <2>2
<1>3. CASE UNCHANGED <<pc, want>>
  BY <1>3
<1>. QED BY <1>1, <1>2, <1>3 DEF Next, Crash, BreakStaleLock, BreakLiveLock,
   Publish, Drop, ExpireList, vars

\* Nothing of the abstract cache changes without a change to a binary, to what
\* is wanted or to an outcome.
LEMMA Stutter ==
  ASSUME TypeOK, UNCHANGED <<bytes, executable, want>>,
         \/ UNCHANGED <<outcome, dir>>
         \/ UNCHANGED outcome
              /\ \E t \in Tasks, d \in Dirs :
                   outcome[t] = "none" /\ dir' = [dir EXCEPT ![t] = d]
         \/ UNCHANGED dir /\ \E t \in Tasks :
              outcome[t] = "none" /\ outcome' = [outcome EXCEPT ![t] = "custom"]
  PROVE  Fit' = Fit /\ want' = want /\ Answered' = Answered
<1>1. Fit' = Fit
  BY DEF Fit, BytesOf, BinaryPath
<1>2. Answered' = Answered
  BY DEF TypeOK, Answered, Errors, HandedOut
<1>. QED BY <1>1, <1>2

\* An error is a refusal.
LEMMA Refusal ==
  ASSUME TypeOK, LabelInv, NEW t \in Tasks, pc[t] # "done",
         NEW e \in Errors, Finish(t, e), UNCHANGED <<want, dir>>, Fit' = Fit
  PROVE  Cache!Next
<1>1. outcome[t] = "none" /\ outcome' = [outcome EXCEPT ![t] = e]
  BY DEF LabelInv, Finish
<1>2. Answered[t] = <<>>
  BY <1>1 DEF TypeOK, Answered, Errors, HandedOut
<1>3. Answered' = [Answered EXCEPT ![t] = <<"refused">>]
  BY <1>1 DEF TypeOK, Answered, Errors, HandedOut
<1>4. Cache!Refuse(t)
  BY <1>2, <1>3 DEF Cache!Refuse
<1>. QED BY <1>4 DEF Cache!Next

\* A step that touches no binary and at most ends in an error.
LEMMA Harmless ==
  ASSUME TypeOK, LabelInv, NEW t \in Tasks, pc[t] # "done",
         UNCHANGED <<bytes, executable, want, dir>>,
         UNCHANGED outcome \/ \E e \in Errors : Finish(t, e)
  PROVE  Cache!Next \/ (Fit' = Fit /\ want' = want /\ Answered' = Answered)
<1>1. CASE UNCHANGED outcome
  BY <1>1, Stutter
<1>2. ASSUME NEW e \in Errors, Finish(t, e) PROVE Cache!Next
  <2>1. Fit' = Fit
    BY DEF Fit, BytesOf, BinaryPath
  <2>. QED BY <1>2, <2>1, Refusal
<1>. QED BY <1>1, <1>2

\* A compiler becomes fit for use.
LEMMA Storing ==
  ASSUME NEW d \in Dirs, NEW v \in Versions, Fit' = Fit \cup {<<d, v>>},
         UNCHANGED want, Answered' = Answered
  PROVE  Cache!Next
<1>1. Cache!Store(d, v)
  BY DEF Cache!Store
<1>. QED BY <1>1 DEF Cache!Next

\* Before its download a binary is not there; after it, it is fit for use on a
\* platform that needs no file mode.
LEMMA FetchRefines ==
  ASSUME CommitsDistinct, TypeOK, LabelInv, OwnerKnowsInv,
         NEW t \in alive, FetchBinary(t)
  PROVE  Cache!Next \/ (Fit' = Fit /\ want' = want /\ Answered' = Answered)
<1>. DEFINE d == dir[t]
            v == want[t]
<1>1. /\ t \in Tasks /\ d \in Dirs /\ v \in Versions
      /\ Commit[v] \in Commits /\ BytesOf(d, v) = Absent
  BY CommitAssumption DEF TypeOK, LabelInv, OwnerKnowsInv, FetchBinary
<1>2. UNCHANGED <<want, dir, outcome>> /\ Answered' = Answered
  BY DEF FetchBinary, Goto, Answered, HandedOut
<1>3. \A e \in Dirs, w \in Versions : <<e, w>> # <<d, v>> =>
        /\ BytesOf(e, w)' = BytesOf(e, w)
        /\ BinaryPath(e, w) \in executable' <=> BinaryPath(e, w) \in executable
  BY <1>1 DEF FetchBinary, BytesOf, BinaryPath, CommitsDistinct, TypeOK
<1>4. <<d, v>> \notin Fit
  BY <1>1, DistinctAssumption DEF Fit
<1>5. bytes'[d][Commit[v]] \in {v, Corrupt} /\ BinaryPath(d, v) \notin executable'
  BY <1>1 DEF FetchBinary, BytesOf, BinaryPath, TypeOK
<1>6. CASE bytes'[d][Commit[v]] = v /\ ~NeedsMode(d)
  <2>1. \A e \in Dirs, w \in Versions :
          <<e, w>> \in Fit' <=> <<e, w>> \in Fit \/ <<e, w>> = <<d, v>>
    BY <1>1, <1>3, <1>6 DEF Fit, BytesOf, BinaryPath
  <2>2. Fit' = Fit \cup {<<d, v>>}
    BY <1>1, <2>1 DEF Fit
  <2>. QED BY <1>1, <1>2, <2>2, Storing
<1>7. CASE ~(bytes'[d][Commit[v]] = v /\ ~NeedsMode(d))
  <2>1. \A e \in Dirs, w \in Versions : <<e, w>> \in Fit' <=> <<e, w>> \in Fit
    BY <1>1, <1>3, <1>4, <1>5, <1>7 DEF Fit, BytesOf, BinaryPath
  <2>2. Fit' = Fit
    BY <2>1 DEF Fit
  <2>. QED BY <1>2, <2>2
<1>. QED BY <1>6, <1>7

\* Removing a binary that failed its check takes nothing out of the store.
LEMMA VerifyRefines ==
  ASSUME CommitsDistinct, TypeOK, LabelInv, NEW t \in alive, VerifyBinary(t)
  PROVE  Cache!Next \/ (Fit' = Fit /\ want' = want /\ Answered' = Answered)
<1>. DEFINE d == dir[t]
            v == want[t]
<1>1. t \in Tasks /\ pc[t] = "verify" /\ UNCHANGED <<executable, want, dir>>
  BY DEF TypeOK, VerifyBinary
<1>2. CASE UNCHANGED bytes
  BY <1>1, <1>2, Harmless DEF VerifyBinary, Goto, Throw, Errors
<1>3. CASE /\ BytesOf(d, v) # v
           /\ bytes' = [bytes EXCEPT ![d][Commit[v]] = Absent]
           /\ Finish(t, "checksum")
  <2>1. v \in Versions /\ d \in Dirs /\ Commit[v] \in Commits
    BY <1>1, CommitAssumption DEF TypeOK, LabelInv
  <2>2. \A e \in Dirs, w \in Versions :
          BytesOf(e, w)' = w <=> BytesOf(e, w) = w
    BY <1>3, <2>1, CommitAssumption, DistinctAssumption
       DEF BytesOf, CommitsDistinct, TypeOK
  <2>3. Fit' = Fit
    BY <1>1, <2>2 DEF Fit, BinaryPath
  <2>. QED BY <1>1, <1>3, <2>3, Refusal DEF Errors
<1>. QED BY <1>2, <1>3 DEF VerifyBinary, Throw

\* Setting the file mode makes a verified binary fit for use.
LEMMA PostRefines ==
  ASSUME CommitsDistinct, TypeOK, LabelInv, OwnerKnowsInv,
         NEW t \in alive, PostProcess(t)
  PROVE  Cache!Next \/ (Fit' = Fit /\ want' = want /\ Answered' = Answered)
<1>. DEFINE d == dir[t]
            v == want[t]
<1>1. /\ t \in Tasks /\ pc[t] = "post" /\ d \in Dirs /\ v \in Versions
      /\ UNCHANGED <<bytes, want, dir>> /\ BytesOf(d, v) = v
  BY DEF TypeOK, LabelInv, OwnerKnowsInv, PostProcess
<1>2. CASE UNCHANGED executable
  BY <1>1, <1>2, Harmless DEF PostProcess, Throw, Return, Goto, Errors
<1>3. CASE /\ executable' = executable \cup {BinaryPath(d, v)}
           /\ UNCHANGED outcome
  <2>1. Answered' = Answered
    BY <1>1, <1>3 DEF Answered, HandedOut
  <2>2. \A e \in Dirs, w \in Versions :
          BinaryPath(e, w) = BinaryPath(d, v) => <<e, w>> = <<d, v>>
    BY <1>1 DEF BinaryPath, CommitsDistinct
  <2>3. Fit' = Fit \cup {<<d, v>>}
    BY <1>1, <1>3, <2>2 DEF Fit, BytesOf, BinaryPath
  <2>. QED BY <1>1, <2>1, <2>3, Storing
<1>. QED BY <1>2, <1>3 DEF PostProcess, Return, Goto

\* What getCompiler finds is in the store.
LEMMA OpenRefines ==
  ASSUME CommitsDistinct, IInv, Quiet, NEW t \in alive, OpenCompiler(t)
  PROVE  Cache!Next \/ (Fit' = Fit /\ want' = want /\ Answered' = Answered)
<1>1. /\ TypeOK /\ LabelInv /\ SoundInv
      /\ t \in Tasks /\ pc[t] = "open" /\ outcome[t] = "none"
      /\ UNCHANGED <<bytes, executable, want>>
  BY DEF IInv, Quiet, Sound, Undisturbed, OpenCompiler, LabelInv, TypeOK,
     diskVars
<1>2. Fit' = Fit
  BY <1>1 DEF Fit, BytesOf, BinaryPath
<1>3. CASE Finish(t, "assertion") /\ UNCHANGED dir
  BY <1>1, <1>3, Harmless DEF Errors
<1>4. CASE UNCHANGED outcome /\ dir' = [dir EXCEPT ![t] = "wasm"]
  BY <1>1, <1>4, Stutter DEF Dirs
<1>5. CASE Finish(t, "compiler") /\ UNCHANGED dir
  <2>1. want[t] \in Versions /\ dir[t] \in Dirs /\ Commit[want[t]] \in Commits
    BY <1>1, CommitAssumption DEF LabelInv, TypeOK
  <2>2. \A s \in Tasks : ~Working(s, {"verify", "post"}, dir[t], want[t])
    BY <1>1 DEF SoundInv, SettledInv, Settled, Quiet, Undisturbed, Working
  <2>3. BytesOf(dir[t], want[t]) \notin {Absent, Corrupt}
    BY <1>1, <2>1, <2>2
       DEF SoundInv, SettledInv, Settled, UnfinishedInv, Working
  <2>4. BytesOf(dir[t], want[t]) \in Versions
    BY <1>1, <2>1, <2>3 DEF TypeOK, BytesOf
  <2>5. BytesOf(dir[t], want[t]) = want[t]
    BY <1>1, <2>1, <2>4 DEF SoundInv, DiskInv, CommitsDistinct, BytesOf
  <2>6. NeedsMode(dir[t]) => BinaryPath(dir[t], want[t]) \in executable
    BY <1>1, <2>1, <2>2, <2>3 DEF SoundInv, UnfinishedInv, NeedsMode
  <2>7. <<dir[t], want[t]>> \in Fit
    BY <2>1, <2>5, <2>6 DEF Fit
  <2>8. /\ Answered[t] = <<>>
        /\ Answered' = [Answered EXCEPT ![t] = <<dir[t], want[t]>>]
    BY <1>1, <1>5 DEF Answered, HandedOut, Errors, Finish, TypeOK
  <2>9. Cache!Serve(t, dir[t])
    BY <1>1, <1>2, <2>7, <2>8 DEF Cache!Serve
  <2>. QED BY <1>1, <2>1, <2>9 DEF Cache!Next
<1>. QED BY <1>3, <1>4, <1>5 DEF OpenCompiler, Goto

\* Each step of the program is a step of the abstract cache, or none.
LEMMA StepRefines ==
  ASSUME CommitsDistinct, IInv, IdleInv, Quiet, [Next]_vars
  PROVE  Cache!Next \/ (Fit' = Fit /\ want' = want /\ Answered' = Answered)
<1>. DEFINE Step == Cache!Next \/
                    (Fit' = Fit /\ want' = want /\ Answered' = Answered)
<1>1. TypeOK /\ LabelInv /\ SoundInv /\ OwnerKnowsInv
  BY DEF IInv, Quiet, Sound, Undisturbed, SoundInv
<1>2. ASSUME NEW t \in alive, NEW v \in Versions \cup {Malformed},
             Request(t, v)
      PROVE  Step
  <2>1. t \in Tasks /\ want[t] = Malformed /\ outcome[t] = "none"
    BY <1>1, <1>2 DEF Request, IdleInv, LabelInv, TypeOK
  <2>2. Fit' = Fit /\ UNCHANGED <<outcome, dir>>
    BY <1>2 DEF Request, Goto, diskVars, Fit, BytesOf, BinaryPath
  <2>3. Answered[t] = <<>>
    BY <2>1 DEF Answered, HandedOut, Errors
  <2>4. Answered' = Answered
    BY <1>1, <2>1, <2>2, <1>2 DEF Answered, HandedOut, LabelInv, Request, TypeOK
  <2>5. Cache!Ask(t, v)
    BY <1>2, <2>1, <2>2, <2>3, <2>4 DEF Cache!Ask, Request
  <2>. QED BY <2>1, <2>5 DEF Cache!Next
<1>3. ASSUME NEW t \in alive, UseCustomPath(t) PROVE Step
  BY <1>1, <1>3, Stutter DEF UseCustomPath, Finish, diskVars, LabelInv, TypeOK
<1>4. ASSUME NEW t \in alive,
             \/ Acquire(t) \/ CheckDownloaded(t) \/ LookUpBuild(t)
             \/ RefreshFails(t) \/ RemoveOldList(t) \/ PlaceList(t)
             \/ FetchFails(t) \/ FindBuild(t)
      PROVE  Step
  <2>1. t \in Tasks /\ pc[t] # "done" /\ UNCHANGED <<want, dir, diskVars>>
    BY <1>1, <1>4 DEF TypeOK, Acquire, CheckDownloaded, LookUpBuild,
       RefreshFails, RemoveOldList, PlaceList, FetchFails, FindBuild
  <2>2. UNCHANGED outcome \/ \E e \in Errors : Finish(t, e)
    BY <1>4 DEF Acquire, CheckDownloaded, LookUpBuild, RefreshFails,
       RemoveOldList, PlaceList, FetchFails, FindBuild, Goto, Throw, Return,
       Errors
  <2>. QED BY <1>1, <2>1, <2>2, Harmless DEF diskVars
<1>5. ASSUME NEW t \in alive,
             \/ FetchBinary(t) \/ VerifyBinary(t) \/ PostProcess(t)
             \/ OpenCompiler(t)
      PROVE  Step
  BY <1>1, <1>5, FetchRefines, VerifyRefines, PostRefines, OpenRefines
<1>6. CASE UNCHANGED <<bytes, executable, want, outcome, dir>>
  BY <1>1, <1>6, Stutter
<1>7. ASSUME NEW t \in alive,
             Crash(t) \/ BreakStaleLock(t) \/ BreakLiveLock(t)
      PROVE  Step
  BY <1>6, <1>7 DEF Crash, BreakStaleLock, BreakLiveLock, diskVars
<1>8. ASSUME NEW v \in Versions, Publish(v) \/ Drop(v) PROVE Step
  BY <1>6, <1>8 DEF Publish, Drop, diskVars
<1>9. ASSUME NEW d \in Dirs, ExpireList(d) PROVE Step
  BY <1>6, <1>9 DEF ExpireList, diskVars
<1>10. CASE UNCHANGED vars
  BY <1>6, <1>10 DEF vars
<1>11. ASSUME NEW t \in alive, Start(t) PROVE Step
  BY <1>2, <1>3, <1>11 DEF Start
<1>12. ASSUME NEW t \in alive, Work(t) PROVE Step
  BY <1>4, <1>5, <1>12 DEF Work
<1>. QED BY <1>7, <1>8, <1>9, <1>10, <1>11, <1>12 DEF Next

\* The lists, the downloads, the mutex and the unlocked read implement the
\* abstract cache for as long as no process dies at work and none is too slow:
\* what is fit for use stays so, every request is answered once, and a compiler
\* it is given is the one asked for, out of the store.
THEOREM Refinement ==
  ASSUME CommitsDistinct PROVE Spec /\ []Quiet => ImplementsCache
<1>1. Init => Cache!Init
  <2>. SUFFICES ASSUME Init PROVE Cache!Init
    OBVIOUS
  <2>1. Fit = {}
    BY CommitAssumption, DistinctAssumption DEF Init, Fit, BytesOf, Dirs
  <2>2. Answered = [t \in Tasks |-> <<>>]
    BY DEF Init, Answered, HandedOut, Errors
  <2>. QED BY <2>1, <2>2 DEF Init, Cache!Init
<1>2. Init => IdleInv
  BY DEF Init, IdleInv
<1>3. IInv /\ IdleInv /\ [Next]_vars => IdleInv'
  BY IdleStep DEF IInv
<1>4. IInv /\ IdleInv /\ Quiet /\ [Next]_vars => [Cache!Next]_Cache!vars
  BY StepRefines DEF Cache!vars
<1>. QED
  BY <1>1, <1>2, <1>3, <1>4, Invariance, PTL
     DEF Spec, ImplementsCache, Cache!Spec
=============================================================================
