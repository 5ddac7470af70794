------------------------- MODULE ProjectSetupProofs -------------------------
(***************************************************************************)
(* ProjectSetup keeps its invariants: what a command knows about the files *)
(* it is going to write stays true while it waits, or the file is marked   *)
(* as touched by the user.                                                 *)
(***************************************************************************)
EXTENDS ProjectSetup, GitIgnoreProofs

\* While a command runs it has no outcome yet.
Running == pc # "idle" => outcome = "none"

\* init: what was found or made by now.
SampleThere == \A f \in SampleFiles : Whole(job.root, f)

InitStages ==
  /\ pc = "package" => ~job.seen
  /\ pc = "menu" /\ job.seen => Present("here", "package")
  /\ pc \in {"menu", "package"} /\ ~job.seen =>
       ~Present("here", "package") \/ <<"here", "package">> \in touched
  /\ pc \in {"config", "where", "ignore", "check", "copy", "deps", "install"} =>
       Present("here", "package")
  /\ pc \in {"where", "ignore", "check", "copy", "deps"} => job.kind # "empty"
  /\ pc = "config" => job.kind = "empty"
  /\ pc = "copy" =>
       /\ job.left \subseteq SampleFiles
       /\ \A f \in SampleFiles \ job.left : Whole(job.root, f)
       /\ \A f \in job.left \ {"readme"} : ~Present(job.root, f)
  /\ pc = "deps" => SampleThere
  /\ pc = "install" /\ job.kind # "empty" => SampleThere

\* port: a file that is going to be replaced is the one that was read, or the
\* user has touched it.
Kept(d, f, new) ==
  \/ <<d, f>> \in touched
  \/ new.origin = disk[d][f].origin /\ new.edited = disk[d][f].edited

Porting == {"confirm", "portPackage", "portConfig", "portIgnore"}

PortStages ==
  /\ pc = "fetch" /\ ~plan.packageChanged =>
       "plugin" \in disk[job.root]["package"].has
  /\ pc \in Porting \cup {"fetch"} => "plugin" \in plan.package.has
  /\ pc \in {"fetch", "confirm", "portPackage"} =>
       Kept(job.root, "package", plan.package)
  /\ pc \in {"confirm", "portPackage", "portConfig"} =>
       Kept(job.root, plan.name, plan.config)
  /\ pc \in Porting =>
       /\ "plugin" \in plan.config.has
       /\ CoversRecommended(plan.ignore)
       /\ \/ plan.ignore = MergeIgnore(ignore[job.root])
          \/ <<job.root, ".gitignore">> \in touched
  /\ pc \in {"portConfig", "portIgnore"} =>
       "plugin" \in disk[job.root]["package"].has
  /\ pc = "portIgnore" => "plugin" \in disk[job.root][plan.name].has

\* A README is the user's or the sample's; only a kill cuts one off.
Readmes ==
  \A d \in Dirs :
    \/ disk[d]["readme"].origin \in {"absent", "user", "sample"}
    \/ disk[d]["readme"].origin = "torn" /\ kills > 0

Commanded == TypeOK /\ Running /\ InitStages /\ PortStages /\ CreatedIsComplete

IInv == Commanded /\ Readmes

-----------------------------------------------------------------------------
(* Files and their contents. *)

LEMMA ContentFacts ==
  /\ Missing \in Contents /\ Torn \in Contents
  /\ \A origin \in Origins \ {"absent"}, has \in SUBSET Traits :
       File(origin, has) \in Contents
  /\ \A c \in Contents : c.origin # "absent" =>
       \A trait \in Traits : [c EXCEPT !.has = @ \cup {trait}] \in Contents
BY DEF Missing, Torn, File, Contents, Origins, Traits

LEMMA NameFacts ==
  ASSUME TypeOK
  PROVE  /\ job.root \in Dirs /\ plan.name \in ConfigFiles /\ "here" \in Dirs
         /\ ConfigFiles \subseteq Files /\ {"package", "source", "readme"} \subseteq Files
         /\ ConfigName(job.kind, job.esm) \in ConfigFiles
         /\ ConfigName("empty", job.esm) \in ConfigFiles
         /\ "package" \notin SampleFiles /\ SampleFiles \subseteq Files
<1>1. \A kind \in Kinds, esm \in BOOLEAN : ConfigName(kind, esm) \in ConfigFiles
  BY DEF Kinds, ConfigName, ConfigFiles
<1>2. job.kind \in Kinds /\ job.esm \in BOOLEAN /\ "empty" \in Kinds
  BY DEF TypeOK, Kinds
<1>. QED BY <1>1, <1>2 DEF TypeOK, Dirs, Files, ConfigFiles, SampleFiles

LEMMA Written ==
  ASSUME TypeOK, NEW d \in Dirs, NEW f \in Files, NEW content \in Contents,
         Write(d, f, content)
  PROVE  /\ disk' \in [Dirs -> [Files -> Contents]]
         /\ disk'[d][f] = content
         /\ \A e \in Dirs, g \in Files :
              <<e, g>> # <<d, f>> => disk'[e][g] = disk[e][g]
BY DEF TypeOK, Write

LEMMA InitInv == Init => IInv
<1>. SUFFICES ASSUME Init PROVE IInv
  OBVIOUS
<1>. USE DEF Init
<1>1. disk \in [Dirs -> [Files -> Contents]]
  <2>1. PICK project \in Projects :
          disk = [d \in Dirs |->
                    IF d = "here" THEN project ELSE [f \in Files |-> Missing]]
    OBVIOUS
  <2>2. project \in [Files -> Contents]
    BY SetupAssumption
  <2>. QED BY <2>1, <2>2, ContentFacts
<1>2. ignore \in [Dirs -> Seq(Lines)]
  BY SetupAssumption
<1>3. plan \in [package : Contents, packageChanged : BOOLEAN,
               name : ConfigFiles, config : Contents, ignore : Seq(Lines)]
  BY ContentFacts DEF NoPlan, ConfigFiles
<1>4. TypeOK
  BY <1>1, <1>2, <1>3, SetupAssumption
     DEF TypeOK, Dirs, Labels, Prompts, Writing, NoJob, Kinds, Outcomes
<1>5. Readmes
  BY SetupAssumption DEF Readmes, Missing, File, Files
<1>. QED BY <1>4, <1>5 DEF IInv, Commanded, Running, InitStages, PortStages, Porting,
            CreatedIsComplete

-----------------------------------------------------------------------------
(* Steps of init. *)

\* A command that is over, but did not create a project.
LEMMA OverKeeps ==
  ASSUME TypeOK', pc' = "idle",
         outcome' \notin {"created", "instructed"}
  PROVE  Commanded'
BY DEF Commanded, Running, InitStages, PortStages, Porting, CreatedIsComplete

LEMMA BeginType ==
  ASSUME TypeOK, NEW cmdJob, Begin(cmdJob),
         cmdJob \in [root : Dirs, kind : Kinds, yes : BOOLEAN, seen : BOOLEAN,
                     esm : BOOLEAN, left : SUBSET Files],
         pc' \in Labels, outcome' \in Outcomes,
         plan' \in [package : Contents, packageChanged : BOOLEAN,
                    name : ConfigFiles, config : Contents, ignore : Seq(Lines)]
  PROVE  TypeOK'
BY SetupAssumption DEF TypeOK, Begin, fileVars

LEMMA NoPlanType ==
  NoPlan \in [package : Contents, packageChanged : BOOLEAN,
              name : ConfigFiles, config : Contents, ignore : Seq(Lines)]
BY ContentFacts DEF NoPlan, ConfigFiles

LEMMA StartInitStep == IInv /\ StartInit => Commanded'
<1>. SUFFICES ASSUME IInv, StartInit PROVE Commanded'
  OBVIOUS
<1>. USE DEF IInv, Commanded
<1>1. PICK kind \in Kinds, yes \in BOOLEAN :
        Begin([NoJob EXCEPT !.kind = kind, !.yes = yes,
                            !.seen = Present("here", "package"),
                            !.esm = "module" \in disk["here"]["package"].has])
  BY DEF StartInit
<1>. DEFINE started ==
       [NoJob EXCEPT !.kind = kind, !.yes = yes,
                     !.seen = Present("here", "package"),
                     !.esm = "module" \in disk["here"]["package"].has]
<1>2. started \in [root : Dirs, kind : Kinds, yes : BOOLEAN, seen : BOOLEAN,
                   esm : BOOLEAN, left : SUBSET Files]
  <2>1. /\ Present("here", "package") \in BOOLEAN
        /\ ("module" \in disk["here"]["package"].has) \in BOOLEAN
    BY DEF Present
  <2>. QED BY <2>1 DEF NoJob, Dirs
<1>3. TypeOK'
  <2>1. pc' \in Labels /\ outcome' \in Outcomes /\ plan' = NoPlan
    BY DEF StartInit, Finish, Labels, Prompts, Outcomes
  <2>. HIDE DEF started
  <2>. QED BY <1>1, <1>2, <2>1, NoPlanType, BeginType DEF started
<1>4. CASE disk["here"]["package"].origin = "torn"
  BY <1>3, <1>4, OverKeeps DEF StartInit, Finish
<1>5. CASE disk["here"]["package"].origin # "torn"
  <2>1. pc' = "menu" /\ outcome' = "none" /\ UNCHANGED fileVars
    BY <1>1, <1>5 DEF StartInit, Begin
  <2>2. job'.seen = Present("here", "package")
    BY <1>1 DEF Begin, NoJob
  <2>3. InitStages'
    BY <2>1, <2>2 DEF InitStages, Present, fileVars
  <2>. QED BY <1>3, <2>1, <2>3
           DEF Running, PortStages, Porting, CreatedIsComplete
<1>. QED BY <1>4, <1>5

\* A command that goes on and writes nothing.
LEMMA AfterPackageLabels ==
  ASSUME AfterPackage
  PROVE  /\ pc' \in {"config", "ignore", "where"} /\ UNCHANGED outcome
         /\ pc' = "config" <=> job.kind = "empty"
BY DEF AfterPackage, Goto

LEMMA ChooseActionStep == IInv /\ ChooseAction => Commanded'
<1>. SUFFICES ASSUME IInv, ChooseAction PROVE Commanded'
  OBVIOUS
<1>. USE DEF IInv, Commanded, ChooseAction
<1>1. TypeOK'
  BY DEF TypeOK, fileVars, counters, AfterPackage, Goto, Finish, Labels,
     Prompts, Writing, Outcomes
<1>2. CASE pc' = "idle"
  BY <1>1, <1>2, OverKeeps, AfterPackageLabels DEF Finish, Goto
<1>3. CASE pc' # "idle"
  <2>1. /\ pc' \in {"config", "ignore", "where", "package"} /\ UNCHANGED outcome
        /\ pc' = "package" => ~job.seen
        /\ pc' # "package" => job.seen
        /\ pc' \in {"ignore", "where"} => job.kind # "empty"
        /\ pc' = "config" => job.kind = "empty"
    BY <1>3, AfterPackageLabels DEF Finish, Goto
  <2>2. InitStages'
    BY <2>1 DEF InitStages, Present, fileVars
  <2>. QED BY <1>1, <2>1, <2>2
           DEF Running, PortStages, Porting, CreatedIsComplete
<1>. QED BY <1>2, <1>3

LEMMA CreatePackageJsonStep == IInv /\ CreatePackageJson => Commanded'
<1>. SUFFICES ASSUME IInv, CreatePackageJson PROVE Commanded'
  OBVIOUS
<1>. USE DEF IInv, Commanded, CreatePackageJson
<1>1. /\ disk' \in [Dirs -> [Files -> Contents]]
      /\ disk'["here"]["package"] = File("stub", {})
  <2>1. File("stub", {}) \in Contents
    BY ContentFacts DEF Origins
  <2>. QED BY <2>1, NameFacts, Written
<1>2. /\ pc' \in {"config", "ignore", "where"} /\ UNCHANGED outcome
      /\ pc' = "config" <=> job.kind = "empty"
  BY AfterPackageLabels
<1>3. TypeOK'
  BY <1>1, <1>2 DEF TypeOK, counters, Labels, Prompts, Writing
<1>4. InitStages'
  BY <1>1, <1>2 DEF InitStages, Present, File
<1>. QED BY <1>2, <1>3, <1>4
         DEF Running, PortStages, Porting, CreatedIsComplete

LEMMA WriteEmptyHardhatConfigStep == IInv /\ WriteEmptyHardhatConfig => Commanded'
<1>. SUFFICES ASSUME IInv, WriteEmptyHardhatConfig PROVE Commanded'
  OBVIOUS
<1>. USE DEF IInv, Commanded, WriteEmptyHardhatConfig
<1>. DEFINE name == ConfigName("empty", job.esm)
<1>1. name \in ConfigFiles /\ name \in Files /\ name # "package"
  BY NameFacts DEF ConfigFiles
<1>2. /\ disk' \in [Dirs -> [Files -> Contents]]
      /\ disk'["here"]["package"] = disk["here"]["package"]
  <2>1. File("empty", {"plugin", "extras"}) \in Contents
    BY ContentFacts DEF Origins, Traits
  <2>. HIDE DEF name
  <2>2. Write("here", name, File("empty", {"plugin", "extras"}))
    BY DEF name
  <2>. QED BY <1>1, <2>1, <2>2, NameFacts, Written
<1>3. \/ pc' = "idle" /\ outcome' = "config"
      \/ pc' = "install" /\ UNCHANGED outcome
  BY DEF Finish, Goto
<1>4. TypeOK'
  BY <1>2, <1>3 DEF TypeOK, counters, Labels, Prompts, Outcomes
<1>5. CASE pc' = "idle"
  BY <1>3, <1>4, <1>5, OverKeeps
<1>6. CASE pc' = "install"
  <2>1. InitStages'
    BY <1>2, <1>6 DEF InitStages, Present
  <2>. QED BY <1>3, <1>4, <1>6, <2>1
           DEF Running, PortStages, Porting, CreatedIsComplete
<1>. QED BY <1>3, <1>5, <1>6

LEMMA ConfirmProjectStep == IInv /\ ConfirmProject => Commanded'
<1>. SUFFICES ASSUME IInv, ConfirmProject PROVE Commanded'
  OBVIOUS
<1>. USE DEF IInv, Commanded, ConfirmProject
<1>1. TypeOK'
  BY DEF TypeOK, fileVars, counters, Goto, Finish, Labels, Prompts, Writing, Outcomes
<1>2. CASE pc' = "idle"
  BY <1>1, <1>2, OverKeeps DEF Finish, Goto
<1>3. CASE pc' # "idle"
  <2>1. /\ pc' \in {"ignore", "check"} /\ UNCHANGED outcome
        /\ job'.kind = job.kind
    BY <1>3 DEF Finish, Goto, TypeOK
  <2>2. InitStages'
    BY <2>1 DEF InitStages, Present, fileVars
  <2>. QED BY <1>1, <2>1, <2>2
           DEF Running, PortStages, Porting, CreatedIsComplete
<1>. QED BY <1>2, <1>3

LEMMA WriteGitIgnoreStep == IInv /\ WriteGitIgnore => Commanded'
<1>. SUFFICES ASSUME IInv, WriteGitIgnore PROVE Commanded'
  OBVIOUS
<1>. USE DEF IInv, Commanded, WriteGitIgnore
<1>1. ignore' \in [Dirs -> Seq(Lines)]
  <2>1. \A d \in Dirs : MergeIgnore(ignore[d]) \in Seq(Lines)
    BY MergeFacts DEF TypeOK
  <2>. QED BY <2>1 DEF TypeOK
<1>2. \/ pc' = "idle" /\ outcome' = "error"
      \/ pc' = "check" /\ UNCHANGED outcome
  BY DEF Finish, Goto
<1>3. TypeOK'
  BY <1>1, <1>2 DEF TypeOK, counters, Labels, Outcomes
<1>4. CASE pc' = "idle"
  BY <1>2, <1>3, <1>4, OverKeeps
<1>5. CASE pc' = "check"
  <2>1. InitStages'
    BY <1>5 DEF InitStages, Present
  <2>. QED BY <1>2, <1>3, <1>5, <2>1
           DEF Running, PortStages, Porting, CreatedIsComplete
<1>. QED BY <1>2, <1>4, <1>5

LEMMA CheckSampleProjectStep == IInv /\ CheckSampleProject => Commanded'
<1>. SUFFICES ASSUME IInv, CheckSampleProject PROVE Commanded'
  OBVIOUS
<1>. USE DEF IInv, Commanded, CheckSampleProject
<1>1. TypeOK'
  BY NameFacts DEF TypeOK, counters, Finish, Goto, Labels, Writing, Outcomes
<1>2. CASE pc' = "idle"
  BY <1>1, <1>2, OverKeeps DEF Finish, Goto
<1>3. CASE pc' # "idle"
  <2>1. /\ pc' = "copy" /\ UNCHANGED outcome /\ Clashes = {}
        /\ job' = [job EXCEPT !.left = SampleFiles]
    BY <1>3 DEF Finish, Goto
  <2>2. /\ job'.left = SampleFiles /\ SampleFiles' = SampleFiles
        /\ job'.root = job.root /\ job'.kind = job.kind
    BY <2>1 DEF TypeOK, SampleFiles
  <2>3. InitStages'
    BY <2>1, <2>2 DEF InitStages, Present, Clashes
  <2>. QED BY <1>1, <2>1, <2>3
           DEF Running, PortStages, Porting, CreatedIsComplete
<1>. QED BY <1>2, <1>3

LEMMA CopyFileStep ==
  ASSUME IInv, NEW f \in Files, CopyFile(f)
  PROVE  Commanded'
<1>. USE DEF IInv, Commanded, CopyFile
<1>. DEFINE traits == IF f \in ConfigFiles THEN {"plugin", "extras"} ELSE {}
<1>1. /\ f \in SampleFiles /\ f # "package" /\ job.root \in Dirs
      /\ File("sample", traits) \in Contents
  BY NameFacts, ContentFacts DEF InitStages, Origins, Traits
<1>2. /\ disk' \in [Dirs -> [Files -> Contents]]
      /\ Whole(job.root, f)'
      /\ \A e \in Dirs, g \in Files :
           /\ Present(e, g) => Present(e, g)'
           /\ Whole(e, g) => Whole(e, g)'
      /\ \A g \in Files \ {f} : Present(job.root, g)' => Present(job.root, g)
  <2>1. job'.root = job.root /\ kills' = kills
    BY DEF TypeOK, counters
  <2>2. CASE f = "readme" /\ Present(job.root, f)
    <3>1. UNCHANGED disk
      BY <2>2
    <3>2. Whole(job.root, f)
      BY <1>1, <2>2 DEF Readmes, Whole, Present
    <3>. QED BY <2>1, <3>1, <3>2 DEF TypeOK, Present, Whole
  <2>3. CASE Write(job.root, f, File("sample", traits))
    <3>. HIDE DEF traits, IInv, CopyFile
    <3>1. /\ disk' \in [Dirs -> [Files -> Contents]]
          /\ disk'[job.root][f] = File("sample", traits)
          /\ \A e \in Dirs, g \in Files :
               <<e, g>> # <<job.root, f>> => disk'[e][g] = disk[e][g]
      BY <1>1, <2>3, Written DEF IInv, Commanded
    <3>. QED BY <1>1, <2>1, <3>1 DEF Present, Whole, File
  <2>. QED BY <2>2, <2>3
<1>3. /\ job'.left = job.left \ {f} /\ job'.root = job.root /\ job'.kind = job.kind
      /\ SampleFiles' = SampleFiles
  BY DEF TypeOK, SampleFiles
<1>4. pc' \in {"deps", "copy"} /\ UNCHANGED outcome /\ (pc' = "deps" => job'.left = {})
  BY DEF Goto, AllCopied
<1>5. TypeOK'
  BY <1>2, <1>4 DEF TypeOK, counters, Labels, Prompts, Writing
<1>6. InitStages'
  <2>1. Present("here", "package")'
    BY <1>2, NameFacts DEF InitStages
  <2>2. \A g \in SampleFiles \ job'.left : Whole(job.root, g)'
    BY <1>1, <1>2, <1>3, NameFacts DEF InitStages
  <2>3. \A g \in job'.left \ {"readme"} : ~Present(job.root, g)'
    BY <1>1, <1>2, <1>3, NameFacts DEF InitStages
  <2>. QED BY <1>3, <1>4, <2>1, <2>2, <2>3 DEF InitStages, SampleThere, Present
<1>. QED BY <1>4, <1>5, <1>6
         DEF Running, PortStages, Porting, CreatedIsComplete

LEMMA DecideOnDependenciesStep == IInv /\ DecideOnDependencies => Commanded'
<1>. SUFFICES ASSUME IInv, DecideOnDependencies PROVE Commanded'
  OBVIOUS
<1>. USE DEF IInv, Commanded, DecideOnDependencies
<1>1. TypeOK'
  BY DEF TypeOK, fileVars, counters, Finish, Goto, Labels, Prompts, Outcomes
<1>2. SampleThere'
  BY DEF InitStages, SampleThere, SampleFiles, Whole, fileVars, counters
<1>3. \/ pc' = "idle" /\ outcome' = "instructed"
      \/ /\ pc' = "idle" /\ outcome' = "created"
         /\ {"plugin", "extras"} \subseteq disk["here"]["package"].has
      \/ pc' = "install" /\ UNCHANGED outcome
  BY DEF Finish, Goto
<1>4. InitStages'
  BY <1>2, <1>3 DEF InitStages, Present, fileVars
<1>5. CreatedIsComplete'
  BY <1>2, <1>3 DEF CreatedIsComplete, SampleThere, Running, fileVars
<1>. QED BY <1>1, <1>3, <1>4, <1>5 DEF Running, PortStages, Porting

\* The package manager adds to package.json, and marks nothing else.
LEMMA InstallKeeps ==
  ASSUME TypeOK, InitStages, InstallDependencies
  PROVE  /\ disk' \in [Dirs -> [Files -> Contents]]
         /\ \A d \in Dirs, f \in Files :
              /\ disk'[d][f].origin = disk[d][f].origin
              /\ disk'[d][f].edited = disk[d][f].edited
<1>. DEFINE old == disk["here"]["package"]
            new == [old EXCEPT !.has = @ \cup {"plugin", "extras"}]
<1>1. CASE UNCHANGED disk
  BY <1>1 DEF TypeOK
<1>2. CASE disk' = [disk EXCEPT !["here"]["package"].has =
                     @ \cup {"plugin", "extras"}]
  <2>1. old \in Contents /\ old.origin # "absent"
    BY NameFacts DEF InstallDependencies, TypeOK, InitStages, Present
  <2>2. new \in Contents /\ new.origin = old.origin /\ new.edited = old.edited
    BY <2>1 DEF Contents, Traits
  <2>3. Write("here", "package", new)
    BY <1>2 DEF Write, TypeOK
  <2>. HIDE DEF new
  <2>. QED BY <2>2, <2>3, NameFacts, Written
<1>. QED BY <1>1, <1>2 DEF InstallDependencies

LEMMA InstallDependenciesStep == IInv /\ InstallDependencies => Commanded'
<1>. SUFFICES ASSUME IInv, InstallDependencies PROVE Commanded'
  OBVIOUS
<1>. USE DEF IInv, Commanded, InstallDependencies
<1>1. /\ disk' \in [Dirs -> [Files -> Contents]]
      /\ \A d \in Dirs, f \in Files : disk'[d][f].origin = disk[d][f].origin
  BY InstallKeeps
<1>2. TypeOK'
  BY <1>1 DEF TypeOK, counters, Finish, Labels, Outcomes
<1>3. CASE outcome' = "created"
  <2>1. SampleThere'
    BY <1>1, <1>3, NameFacts
       DEF InitStages, SampleThere, SampleFiles, Whole, Finish, counters
  <2>2. {"plugin", "extras"} \subseteq disk'["here"]["package"].has
    BY <1>3, NameFacts DEF Finish, TypeOK, Contents
  <2>. QED BY <1>2, <1>3, <2>1, <2>2
           DEF Finish, Running, InitStages, PortStages, Porting, 
               CreatedIsComplete, SampleThere
<1>4. CASE outcome' # "created"
  BY <1>2, <1>4, OverKeeps DEF Finish
<1>. QED BY <1>3, <1>4

-----------------------------------------------------------------------------
(* Steps of port. *)

LEMMA StartPortStep == IInv /\ StartPort => Commanded'
<1>. SUFFICES ASSUME IInv, StartPort PROVE Commanded'
  OBVIOUS
<1>. USE DEF IInv, Commanded
<1>1. PICK d \in Dirs, yes \in BOOLEAN :
        /\ Begin([NoJob EXCEPT !.root = d, !.yes = yes])
        /\ LET old == disk[d]["package"]
           IN IF old.origin \in {"absent", "torn"}
              THEN Finish("error") /\ UNCHANGED plan
              ELSE /\ \E changed \in BOOLEAN :
                        /\ "plugin" \notin old.has => changed
                        /\ plan' = [NoPlan EXCEPT
                             !.package = [old EXCEPT !.has = @ \cup {"plugin"}],
                             !.packageChanged = changed]
                   /\ pc' = "fetch" /\ outcome' = "none"
  BY DEF StartPort
<1>. DEFINE old == disk[d]["package"]
            started == [NoJob EXCEPT !.root = d, !.yes = yes]
<1>2. started \in [root : Dirs, kind : Kinds, yes : BOOLEAN, seen : BOOLEAN,
                   esm : BOOLEAN, left : SUBSET Files] /\ started.root = d
  BY DEF NoJob, Kinds
<1>3. CASE old.origin \in {"absent", "torn"}
  <2>1. pc' = "idle" /\ outcome' = "error" /\ UNCHANGED plan
    BY <1>1, <1>3 DEF Finish
  <2>2. TypeOK'
    <3>. HIDE DEF started
    <3>1. Begin(started)
      BY <1>1 DEF started
    <3>. QED BY <1>2, <2>1, <3>1, BeginType DEF TypeOK, Labels, Outcomes
  <2>. QED BY <2>1, <2>2, OverKeeps
<1>4. CASE old.origin \notin {"absent", "torn"}
  <2>1. PICK changed \in BOOLEAN :
          /\ "plugin" \notin old.has => changed
          /\ plan' = [NoPlan EXCEPT
               !.package = [old EXCEPT !.has = @ \cup {"plugin"}],
               !.packageChanged = changed]
    BY <1>1, <1>4
  <2>2. pc' = "fetch" /\ outcome' = "none" /\ UNCHANGED fileVars /\ job' = started
    BY <1>1, <1>4 DEF Begin
  <2>3. old \in Contents /\ [old EXCEPT !.has = @ \cup {"plugin"}] \in Contents
    <3>1. old \in Contents /\ old.origin # "absent" /\ "plugin" \in Traits
      BY <1>4, NameFacts DEF TypeOK, Traits
    <3>. HIDE DEF old
    <3>. QED BY <3>1, ContentFacts
  <2>4. TypeOK'
    <3>1. plan' \in [package : Contents, packageChanged : BOOLEAN,
                name : ConfigFiles, config : Contents, ignore : Seq(Lines)]
      BY <2>1, <2>3, NoPlanType
    <3>. HIDE DEF started
    <3>2. Begin(started)
      BY <1>1 DEF started
    <3>. QED BY <1>2, <2>2, <3>1, <3>2, BeginType DEF Labels, Prompts, Outcomes
  <2>5. PortStages'
    <3>1. /\ plan'.package.has = old.has \cup {"plugin"}
          /\ plan'.package.origin = old.origin /\ plan'.package.edited = old.edited
          /\ plan'.packageChanged = changed
      BY <2>1, <2>3, NoPlanType DEF NoPlan, Contents
    <3>2. disk'[job'.root]["package"] = old
      BY <1>2, <2>2 DEF fileVars
    <3>. QED BY <2>1, <2>2, <3>1, <3>2 DEF PortStages, Porting, Kept
  <2>. QED BY <2>2, <2>4, <2>5
           DEF Running, InitStages, CreatedIsComplete
<1>. QED BY <1>3, <1>4

LEMMA FetchFailsStep == IInv /\ FetchFails => Commanded'
<1>. SUFFICES ASSUME IInv, FetchFails PROVE Commanded'
  OBVIOUS
<1>1. TypeOK'
  BY DEF IInv, Commanded, TypeOK, FetchFails, fileVars, counters, Finish, Labels, Outcomes
<1>. QED BY <1>1, OverKeeps DEF FetchFails, Finish

LEMMA PatchFacts ==
  ASSUME NEW config \in Contents, config.origin # "absent",
         NEW new \in PatchExportConfig(InsertImport(config))
  PROVE  /\ new \in Contents /\ "plugin" \in new.has
         /\ new.origin = config.origin /\ new.edited = config.edited
<1>. DEFINE imported == InsertImport(config)
            patched == [imported EXCEPT !.has = @ \cup {"extras"}]
<1>1. /\ imported \in Contents /\ "plugin" \in imported.has
      /\ imported.origin = config.origin /\ imported.edited = config.edited
  BY DEF InsertImport, Contents, Traits
<1>2. new \in {imported, patched}
  BY DEF PatchExportConfig
<1>. HIDE DEF imported
<1>3. /\ patched \in Contents /\ "plugin" \in patched.has
      /\ patched.origin = imported.origin /\ patched.edited = imported.edited
  BY <1>1 DEF Contents, Traits
<1>. QED BY <1>1, <1>2, <1>3

LEMMA FetchedStep == IInv /\ Fetched => Commanded'
<1>. SUFFICES ASSUME IInv, Fetched PROVE Commanded'
  OBVIOUS
<1>. USE DEF IInv, Commanded
<1>1. /\ pc = "fetch" /\ outcome = "none"
      /\ UNCHANGED <<disk, exists, ignore, job, touched, commands, kills, edits>>
  BY DEF Fetched, fileVars, counters, Running
<1>2. CASE Configs(job.root) = {} /\ Finish("error") /\ UNCHANGED plan
  <2>1. TypeOK'
    BY <1>1, <1>2 DEF TypeOK, Finish, Labels, Outcomes
  <2>. QED BY <1>2, <2>1, OverKeeps DEF Finish
<1>3. ASSUME NEW f \in Configs(job.root),
             NEW new \in PatchExportConfig(InsertImport(disk[job.root][f])),
             plan' = [plan EXCEPT !.name = f, !.config = new,
                                  !.ignore = MergeIgnore(ignore[job.root])],
             IF ~Changed(job.root, plan') THEN Finish("unchanged")
             ELSE Goto(IF job.yes THEN "portPackage" ELSE "confirm")
      PROVE  Commanded'
  <2>1. /\ new \in Contents /\ "plugin" \in new.has
        /\ new.origin = disk[job.root][f].origin
        /\ new.edited = disk[job.root][f].edited
        /\ f \in ConfigFiles
    BY NameFacts, PatchFacts DEF Configs, Present, TypeOK
  <2>2. /\ MergeIgnore(ignore[job.root]) \in Seq(Lines)
        /\ CoversRecommended(MergeIgnore(ignore[job.root]))
    BY MergeFacts DEF TypeOK
  <2>3. /\ plan'.name = f /\ plan'.config = new
        /\ plan'.ignore = MergeIgnore(ignore[job.root])
        /\ plan'.package = plan.package /\ plan'.packageChanged = plan.packageChanged
    BY <1>3 DEF TypeOK
  <2>4. CASE ~Changed(job.root, plan')
    <3>1. pc' = "idle" /\ outcome' = "unchanged"
      BY <1>3, <2>4 DEF Finish
    <3>2. TypeOK'
      BY <1>1, <1>3, <2>1, <2>2, <3>1 DEF TypeOK, Labels, Outcomes
    <3>. QED BY <3>1, <3>2, OverKeeps
  <2>5. CASE Changed(job.root, plan')
    <3>1. pc' \in {"portPackage", "confirm"} /\ outcome' = "none"
      BY <1>1, <1>3, <2>5 DEF Goto
    <3>2. TypeOK'
      BY <1>1, <1>3, <2>1, <2>2, <3>1
         DEF TypeOK, Labels, Prompts, Writing, Outcomes
    <3>3. PortStages'
      BY <1>1, <2>1, <2>2, <2>3, <3>1 DEF PortStages, Porting, Kept
    <3>. QED BY <3>1, <3>2, <3>3
             DEF Running, InitStages, CreatedIsComplete
  <2>. QED BY <2>4, <2>5
<1>. QED BY <1>2, <1>3 DEF Fetched

LEMMA ConfirmDiffStep == IInv /\ ConfirmDiff => Commanded'
<1>. SUFFICES ASSUME IInv, ConfirmDiff PROVE Commanded'
  OBVIOUS
<1>. USE DEF IInv, Commanded, ConfirmDiff
<1>1. TypeOK'
  BY DEF TypeOK, fileVars, counters, Finish, Goto, Labels, Writing, Outcomes
<1>2. CASE pc' = "idle"
  BY <1>1, <1>2, OverKeeps DEF Finish, Goto
<1>3. CASE pc' # "idle"
  <2>1. pc' = "portPackage" /\ UNCHANGED outcome
    BY <1>3 DEF Finish, Goto
  <2>2. PortStages'
    BY <2>1 DEF PortStages, Porting, Kept, fileVars
  <2>. QED BY <1>1, <2>1, <2>2
           DEF Running, InitStages, CreatedIsComplete
<1>. QED BY <1>2, <1>3

LEMMA WritePortedStep == IInv /\ WritePorted => Commanded'
<1>. SUFFICES ASSUME IInv, WritePorted PROVE Commanded'
  OBVIOUS
<1>. USE DEF IInv, Commanded
<1>1. UNCHANGED <<exists, job, plan, touched, commands, kills, edits>>
  BY DEF WritePorted, counters
<1>2. /\ job.root \in Dirs /\ plan.name \in Files /\ "package" \in Files
      /\ plan.name # "package"
      /\ plan.package \in Contents /\ plan.config \in Contents
  BY NameFacts DEF TypeOK, ConfigFiles
<1>3. CASE pc = "portPackage"
  <2>1. /\ Goto("portConfig") /\ Write(job.root, "package", plan.package)
        /\ UNCHANGED ignore
    BY <1>3 DEF WritePorted
  <2>2. /\ disk' \in [Dirs -> [Files -> Contents]]
        /\ disk'[job.root]["package"] = plan.package
        /\ disk'[job.root][plan.name] = disk[job.root][plan.name]
    BY <1>2, <2>1, Written
  <2>3. TypeOK'
    BY <1>1, <2>1, <2>2 DEF TypeOK, Goto, Labels, Writing
  <2>4. PortStages'
    BY <1>1, <1>3, <2>1, <2>2 DEF PortStages, Porting, Kept, Goto
  <2>. QED BY <1>3, <2>1, <2>3, <2>4
           DEF Goto, Running, InitStages, CreatedIsComplete
<1>4. CASE pc = "portConfig"
  <2>1. /\ Goto("portIgnore") /\ Write(job.root, plan.name, plan.config)
        /\ UNCHANGED ignore
    BY <1>4 DEF WritePorted
  <2>2. /\ disk' \in [Dirs -> [Files -> Contents]]
        /\ disk'[job.root][plan.name] = plan.config
        /\ disk'[job.root]["package"] = disk[job.root]["package"]
    BY <1>2, <2>1, Written
  <2>3. TypeOK'
    BY <1>1, <2>1, <2>2 DEF TypeOK, Goto, Labels, Writing
  <2>4. PortStages'
    BY <1>1, <1>4, <2>1, <2>2 DEF PortStages, Porting, Kept, Goto
  <2>. QED BY <1>4, <2>1, <2>3, <2>4
           DEF Goto, Running, InitStages, CreatedIsComplete
<1>5. CASE pc = "portIgnore"
  <2>1. /\ pc' = "idle" /\ outcome' = "ported" /\ UNCHANGED disk
        /\ ignore' = [ignore EXCEPT ![job.root] = plan.ignore]
    BY <1>5 DEF WritePorted, Finish
  <2>2. ignore' \in [Dirs -> Seq(Lines)] /\ ignore'[job.root] = plan.ignore
    BY <1>2, <2>1 DEF TypeOK
  <2>3. TypeOK'
    BY <1>1, <2>1, <2>2 DEF TypeOK, Labels, Outcomes
  <2>. QED BY <2>1, <2>3, OverKeeps
<1>. QED BY <1>3, <1>4, <1>5 DEF WritePorted

-----------------------------------------------------------------------------
(* Edits and kills. *)

\* An edit leaves what a file is for, and what is read again or touched.
LEMMA EditStep ==
  ASSUME IInv, NEW d \in Dirs, NEW f \in Files, Edit(d, f)
  PROVE  Commanded'
<1>. USE DEF IInv, Commanded
<1>. DEFINE new == [disk[d][f] EXCEPT !.origin = "user", !.edited = TRUE]
<1>1. /\ UNCHANGED <<exists, ignore, pc, job, plan, outcome, commands, kills>>
      /\ pc \in {"idle"} \cup Prompts
      /\ touched' = touched \cup ({<<d, f>>} \cap AlreadyRead)
      /\ edits < MaxEdits /\ edits' = edits + 1
  BY DEF Edit, Touch
<1>2. /\ new \in Contents /\ new.has = disk[d][f].has /\ new.origin = "user"
  <2>1. disk[d][f] \in Contents
    BY DEF TypeOK
  <2>2. \A c \in Contents :
          LET edited == [c EXCEPT !.origin = "user", !.edited = TRUE]
          IN edited \in Contents /\ edited.has = c.has /\ edited.origin = "user"
    BY DEF Contents, Origins
  <2>. QED BY <2>1, <2>2
<1>3. /\ disk' \in [Dirs -> [Files -> Contents]] /\ disk'[d][f] = new
      /\ \A e \in Dirs, g \in Files :
           <<e, g>> # <<d, f>> => disk'[e][g] = disk[e][g]
  <2>. HIDE DEF new
  <2>1. Write(d, f, new)
    BY DEF Edit, new
  <2>. QED BY <1>2, <2>1, Written
<1>. HIDE DEF new
<1>4. \A e \in Dirs, g \in Files :
        /\ disk'[e][g].has = disk[e][g].has
        /\ Present(e, g) => Present(e, g)'
        /\ Whole(e, g) => Whole(e, g)'
        /\ <<e, g>> # <<d, f>> => (Present(e, g)' => Present(e, g))
  BY <1>1, <1>2, <1>3 DEF Present, Whole
<1>5. TypeOK'
  <2>1. touched' \in SUBSET (Dirs \X (Files \cup {".gitignore"})) /\ edits' \in 0 .. MaxEdits
    BY <1>1, SetupAssumption DEF TypeOK
  <2>. QED BY <1>1, <1>3, <2>1 DEF TypeOK
<1>6. SampleFiles' = SampleFiles /\ SampleFiles \subseteq Files /\ job.root \in Dirs
      /\ "here" \in Dirs /\ "package" \in Files /\ plan.name \in Files
  BY <1>1, NameFacts DEF SampleFiles
<1>7. InitStages'
  <2>1. SampleThere => SampleThere'
    BY <1>1, <1>4, <1>6 DEF SampleThere
  <2>2. pc = "menu" /\ ~job.seen =>
          ~Present("here", "package")' \/ <<"here", "package">> \in touched'
    BY <1>1, <1>4, <1>6 DEF InitStages, AlreadyRead
  <2>3. pc \notin {"package", "copy"}
    BY <1>1 DEF Prompts
  <2>. QED BY <1>1, <1>4, <1>6, <2>1, <2>2, <2>3 DEF InitStages, Present
<1>8. PortStages'
  <2>1. \A g \in Files, c \in Contents :
          Kept(job.root, g, c) /\ <<job.root, g>> \in AlreadyRead
            => Kept(job.root, g, c)'
    BY <1>1, <1>3, <1>6 DEF Kept
  <2>2. pc \in {"fetch", "confirm"} => <<job.root, "package">> \in AlreadyRead
    BY DEF AlreadyRead
  <2>3. pc = "confirm" => <<job.root, plan.name>> \in AlreadyRead
    BY DEF AlreadyRead
  <2>4. pc \notin {"portPackage", "portConfig", "portIgnore"}
    BY <1>1 DEF Prompts
  <2>5. plan.package \in Contents /\ plan.config \in Contents
    BY DEF TypeOK
  <2>. QED BY <1>1, <1>4, <1>6, <2>1, <2>2, <2>3, <2>4, <2>5
           DEF PortStages, Porting, Kept
<1>9. CreatedIsComplete'
  BY <1>1, <1>4, <1>6 DEF CreatedIsComplete
<1>. QED BY <1>1, <1>5, <1>7, <1>8, <1>9 DEF Running

\* An edit of .gitignore is noticed by nothing but the merge that was read.
LEMMA EditIgnoreStep ==
  ASSUME IInv, NEW d \in Dirs, EditIgnore(d)
  PROVE  Commanded'
<1>. USE DEF IInv, Commanded
<1>1. /\ UNCHANGED <<disk, exists, pc, job, plan, outcome, commands, kills>>
      /\ pc \in {"idle"} \cup Prompts
      /\ touched' = touched \cup ({<<d, ".gitignore">>} \cap AlreadyRead)
      /\ edits < MaxEdits /\ edits' = edits + 1
  BY DEF EditIgnore, Touch
<1>2. /\ ignore' \in [Dirs -> Seq(Lines)]
      /\ \A e \in Dirs \ {d} : ignore'[e] = ignore[e]
  <2>1. PICK new \in UserIgnores : ignore' = [ignore EXCEPT ![d] = new]
    BY DEF EditIgnore
  <2>2. new \in Seq(Lines)
    BY SetupAssumption
  <2>. QED BY <2>1, <2>2 DEF TypeOK
<1>3. TypeOK'
  <2>1. touched' \in SUBSET (Dirs \X (Files \cup {".gitignore"}))
        /\ edits' \in 0 .. MaxEdits
    BY <1>1, SetupAssumption DEF TypeOK
  <2>. QED BY <1>1, <1>2, <2>1 DEF TypeOK
<1>4. InitStages' /\ CreatedIsComplete'
  BY <1>1 DEF InitStages, SampleThere, CreatedIsComplete, SampleFiles, Present,
     Whole
<1>5. PortStages'
  <2>1. pc = "confirm" => <<job.root, ".gitignore">> \in AlreadyRead
    BY DEF AlreadyRead
  <2>2. pc \notin {"portPackage", "portConfig", "portIgnore"}
    BY <1>1 DEF Prompts
  <2>3. pc = "confirm" =>
          \/ plan.ignore = MergeIgnore(ignore'[job.root])
          \/ <<job.root, ".gitignore">> \in touched'
    BY <1>1, <1>2, <2>1, NameFacts DEF PortStages, Porting
  <2>. QED BY <1>1, <2>2, <2>3 DEF PortStages, Porting, Kept
<1>. QED BY <1>1, <1>3, <1>4, <1>5 DEF Running

LEMMA KillStep == IInv /\ Kill => Commanded'
<1>. SUFFICES ASSUME IInv, Kill PROVE Commanded'
  OBVIOUS
<1>. USE DEF IInv, Commanded
<1>1. disk' \in [Dirs -> [Files -> Contents]]
  <2>1. CASE UNCHANGED disk
    BY <2>1 DEF TypeOK
  <2>2. CASE pc \in {"package", "config", "portPackage", "portConfig"}
               /\ Write(Open[1], Open[2], Torn)
    <3>1. PICK d \in Dirs, f \in Files : Open = <<d, f>>
      BY <2>2, NameFacts DEF Open
    <3>. QED BY <2>2, <3>1, ContentFacts, Written
  <2>3. ASSUME NEW f \in job.left, Write(job.root, f, Torn)
        PROVE  disk' \in [Dirs -> [Files -> Contents]]
    BY <2>3, NameFacts, ContentFacts, Written DEF TypeOK
  <2>. QED BY <2>1, <2>2, <2>3 DEF Kill
<1>2. ignore' \in [Dirs -> Seq(Lines)]
  <2>1. UNCHANGED ignore \/ ignore' = [ignore EXCEPT ![job.root] = <<>>]
    BY DEF Kill
  <2>2. <<>> \in Seq(Lines)
    BY EmptySeq
  <2>. QED BY <2>1, <2>2 DEF TypeOK
<1>3. TypeOK'
  BY <1>1, <1>2, SetupAssumption DEF Kill, TypeOK, Finish, Labels, Outcomes
<1>. QED BY <1>3, OverKeeps DEF Kill, Finish

\* Nobody but the steps named here writes files.
LEMMA FilesUntouched ==
  ASSUME [Next]_vars,
         ~CreatePackageJson, ~WriteEmptyHardhatConfig, ~InstallDependencies,
         ~WritePorted, ~Kill, ~ \E f \in Files : CopyFile(f),
         ~ \E d \in Dirs, f \in Files : Edit(d, f)
  PROVE  UNCHANGED disk
BY DEF Next, vars, fileVars, StartInit, Begin, ChooseAction, ConfirmProject,
   WriteGitIgnore, CheckSampleProject, DecideOnDependencies, StartPort,
   FetchFails, Fetched, ConfirmDiff, EditIgnore

\* Only a kill is counted.
LEMMA KillsGrow ==
  ASSUME TypeOK, [Next]_vars
  PROVE  kills' = kills \/ (Kill /\ kills' = kills + 1)
BY DEF Next, vars, fileVars, counters, StartInit, StartPort, Begin, ChooseAction,
   CreatePackageJson, WriteEmptyHardhatConfig, ConfirmProject, WriteGitIgnore,
   CheckSampleProject, CopyFile, DecideOnDependencies, InstallDependencies,
   FetchFails, Fetched, ConfirmDiff, WritePorted, Edit, EditIgnore, Touch, Kill

\* A README is only written by a copy that finds none.
LEMMA ReadmesStep == IInv /\ [Next]_vars => Readmes'
<1>. SUFFICES ASSUME IInv, [Next]_vars PROVE Readmes'
  OBVIOUS
<1>. USE DEF IInv, Commanded
<1>1. kills \in Nat /\ kills' \in Nat /\ kills' >= kills
  BY KillsGrow, SetupAssumption DEF TypeOK
<1>2. ASSUME \A d \in Dirs : disk'[d]["readme"].origin = disk[d]["readme"].origin
      PROVE  Readmes'
  BY <1>1, <1>2 DEF Readmes
<1>3. ASSUME NEW d \in Dirs, NEW f \in Files \ {"readme"},
             NEW content \in Contents, Write(d, f, content)
      PROVE  Readmes'
  BY <1>2, <1>3, NameFacts, Written
<1>4. CASE CreatePackageJson
  <2>1. File("stub", {}) \in Contents
    BY ContentFacts DEF Origins
  <2>. QED BY <1>3, <1>4, <2>1, NameFacts DEF CreatePackageJson
<1>5. CASE WriteEmptyHardhatConfig
  <2>1. File("empty", {"plugin", "extras"}) \in Contents
    BY ContentFacts DEF Origins, Traits
  <2>2. ConfigName("empty", job.esm) \in Files \ {"readme"} /\ "here" \in Dirs
    BY NameFacts DEF ConfigFiles
  <2>. QED BY <1>3, <1>5, <2>1, <2>2 DEF WriteEmptyHardhatConfig
<1>6. CASE InstallDependencies
  BY <1>2, <1>6, InstallKeeps, NameFacts
<1>7. CASE WritePorted
  <2>1. /\ job.root \in Dirs /\ plan.name \in Files \ {"readme"}
        /\ "package" \in Files \ {"readme"}
        /\ plan.package \in Contents /\ plan.config \in Contents
    BY NameFacts DEF TypeOK, ConfigFiles
  <2>2. \/ Write(job.root, "package", plan.package)
        \/ Write(job.root, plan.name, plan.config)
        \/ UNCHANGED disk
    BY <1>7 DEF WritePorted
  <2>. QED BY <1>2, <1>3, <2>1, <2>2
<1>8. CASE Kill
  <2>1. kills' > 0
    BY <1>1, <1>8 DEF Kill
  <2>2. CASE UNCHANGED disk
    BY <1>2, <2>2
  <2>3. CASE pc \in {"package", "config", "portPackage", "portConfig"}
               /\ Write(Open[1], Open[2], Torn)
    <3>1. PICK d \in Dirs, f \in Files \ {"readme"} : Open = <<d, f>>
      BY <2>3, NameFacts DEF Open, ConfigFiles
    <3>. QED BY <1>3, <2>3, <3>1, ContentFacts
  <2>4. ASSUME NEW f \in job.left, Write(job.root, f, Torn)
        PROVE  Readmes'
    <3>1. /\ f \in Files /\ job.root \in Dirs /\ Torn \in Contents
          /\ "readme" \in Files
      BY NameFacts, ContentFacts DEF TypeOK
    <3>2. \A d \in Dirs :
            \/ disk'[d]["readme"] = Torn
            \/ disk'[d]["readme"] = disk[d]["readme"]
      BY <2>4, <3>1, Written
    <3>. QED BY <1>1, <2>1, <3>2 DEF Readmes, Torn, File
  <2>. QED BY <1>8, <2>2, <2>3, <2>4 DEF Kill
<1>9. ASSUME NEW f \in Files, CopyFile(f) PROVE Readmes'
  <2>. DEFINE content == File("sample", IF f \in ConfigFiles
                                        THEN {"plugin", "extras"} ELSE {})
  <2>1. /\ content \in Contents /\ content.origin = "sample"
        /\ job.root \in Dirs /\ "readme" \in Files
    BY NameFacts, ContentFacts DEF Origins, Traits, File
  <2>2. UNCHANGED disk \/ Write(job.root, f, content)
    BY <1>9 DEF CopyFile
  <2>. HIDE DEF content
  <2>3. CASE Write(job.root, f, content)
    <3>1. \A d \in Dirs :
            \/ disk'[d]["readme"] = content
            \/ disk'[d]["readme"] = disk[d]["readme"]
      BY <2>1, <2>3, Written
    <3>. QED BY <1>1, <2>1, <3>1 DEF Readmes
  <2>. QED BY <1>2, <2>2, <2>3
<1>10. ASSUME NEW d \in Dirs, NEW f \in Files, Edit(d, f) PROVE Readmes'
  <2>1. f # "readme" /\ Write(d, f, [disk[d][f] EXCEPT !.origin = "user", !.edited = TRUE])
    BY <1>10 DEF Edit, ConfigFiles
  <2>2. \A e \in Dirs : disk'[e]["readme"] = disk[e]["readme"]
    BY <2>1, NameFacts DEF Write, TypeOK
  <2>. QED BY <1>2, <2>2
<1>11. CASE UNCHANGED disk
  BY <1>2, <1>11
<1>. QED BY <1>4, <1>5, <1>6, <1>7, <1>8, <1>9, <1>10, <1>11, FilesUntouched

LEMMA StepInv == IInv /\ [Next]_vars => IInv'
<1>. SUFFICES ASSUME IInv, [Next]_vars PROVE IInv'
  OBVIOUS
<1>1. CASE UNCHANGED vars
  BY <1>1 DEF vars, IInv, TypeOK, Running, InitStages, SampleThere, SampleFiles,
     PortStages, Porting, Kept, CreatedIsComplete, Present, Whole, Readmes,
     Commanded
<1>. QED BY <1>1, StartInitStep, ChooseActionStep, CreatePackageJsonStep,
            WriteEmptyHardhatConfigStep, ConfirmProjectStep, WriteGitIgnoreStep,
            CheckSampleProjectStep, CopyFileStep, DecideOnDependenciesStep,
            InstallDependenciesStep, StartPortStep, FetchFailsStep, FetchedStep,
            ConfirmDiffStep, WritePortedStep, EditStep,
            EditIgnoreStep, KillStep, ReadmesStep DEF Next, IInv

LEMMA Invariant == Spec => []IInv
BY InitInv, StepInv, PTL DEF Spec

-----------------------------------------------------------------------------
(* Theorems. *)

\* Every reachable state has its type: no command ever writes a file that is
\* no file, whatever was there, killed, edited or answered before.
THEOREM TypeCorrect == Spec => []TypeOK
BY Invariant, PTL DEF IInv, Commanded

\* portProject: a port that ends well leaves all three files ported, after
\* any number of commands, edits and kills, for every .gitignore.
THEOREM PortCompletes == Spec => PortIsComplete
<1>. DEFINE A == pc # "idle" /\ outcome' \in {"ported", "unchanged"} => Ported'
<1>1. IInv /\ [Next]_vars => A
  <2>. SUFFICES ASSUME IInv, [Next]_vars, pc # "idle",
                       outcome' \in {"ported", "unchanged"}
                PROVE  Ported'
    OBVIOUS
  <2>. USE DEF IInv, Commanded
  <2>1. Fetched \/ WritePorted
    <3>1. outcome = "none"
      BY DEF Running
    <3>. QED BY <3>1 DEF Next, vars, StartInit, StartPort, Begin, ChooseAction,
         AfterPackage, CreatePackageJson, WriteEmptyHardhatConfig,
         ConfirmProject, WriteGitIgnore, CheckSampleProject, CopyFile,
         DecideOnDependencies, InstallDependencies, FetchFails, ConfirmDiff,
         Edit, EditIgnore, Touch, Kill, Goto, Finish
  <2>2. CASE WritePorted
    <3>1. /\ pc = "portIgnore" /\ UNCHANGED <<disk, job, plan>>
          /\ ignore' = [ignore EXCEPT ![job.root] = plan.ignore]
      BY <2>2 DEF WritePorted, Goto, Running
    <3>2. ignore'[job.root] = plan.ignore
      BY <3>1, NameFacts DEF TypeOK
    <3>. QED BY <3>1, <3>2 DEF Ported, PortStages, Porting
  <2>3. CASE Fetched
    <3>0. PICK f \in Configs(job.root) :
            \E new \in PatchExportConfig(InsertImport(disk[job.root][f])) :
              /\ plan' = [plan EXCEPT !.name = f, !.config = new,
                                      !.ignore = MergeIgnore(ignore[job.root])]
              /\ IF ~Changed(job.root, plan') THEN Finish("unchanged")
                 ELSE Goto(IF job.yes THEN "portPackage" ELSE "confirm")
      BY <2>3 DEF Fetched, Finish
    <3>1. PICK new \in PatchExportConfig(InsertImport(disk[job.root][f])) :
            /\ plan' = [plan EXCEPT !.name = f, !.config = new,
                                    !.ignore = MergeIgnore(ignore[job.root])]
            /\ IF ~Changed(job.root, plan') THEN Finish("unchanged")
               ELSE Goto(IF job.yes THEN "portPackage" ELSE "confirm")
      BY <3>0
    <3>2. pc = "fetch" /\ UNCHANGED <<disk, ignore, job>>
      BY <2>3 DEF Fetched, fileVars
    <3>3. /\ new \in Contents /\ "plugin" \in new.has /\ job.root \in Dirs
      BY NameFacts, PatchFacts DEF Configs, Present, TypeOK
    <3>4. /\ plan'.name = f /\ plan'.config = new
          /\ plan'.ignore = MergeIgnore(ignore[job.root])
          /\ plan'.packageChanged = plan.packageChanged
      BY <3>1 DEF TypeOK
    <3>5. ~Changed(job.root, plan')
      BY <3>1 DEF Goto, Running
    <3>6. /\ ~plan.packageChanged /\ new = disk[job.root][f]
          /\ MergeIgnore(ignore[job.root]) = ignore[job.root]
      BY <3>4, <3>5 DEF Changed
    <3>7. CoversRecommended(ignore[job.root])
      BY <3>3, <3>6, MergeFacts DEF TypeOK
    <3>. QED BY <3>2, <3>3, <3>4, <3>6, <3>7 DEF Ported, PortStages
  <2>. QED BY <2>1, <2>2, <2>3
<1>2. A => [A]_vars
  OBVIOUS
<1>. QED BY <1>1, <1>2, Invariant, PTL DEF Spec, PortIsComplete

\* createProject: "Project created" is only said of a whole sample project, a
\* README that a killed init cut off excepted, and without instructions only
\* when all dependencies are in package.json; after any commands and edits.
THEOREM CreatedCompletes == Spec => []CreatedIsComplete
BY Invariant, PTL DEF IInv, Commanded

\* Nobody but the steps named here writes a .gitignore.
LEMMA IgnoreUntouched ==
  ASSUME [Next]_vars, ~WriteGitIgnore, ~WritePorted, ~Kill,
         ~ \E d \in Dirs : EditIgnore(d)
  PROVE  UNCHANGED ignore
<1>1. CASE StartInit \/ StartPort
  BY <1>1 DEF StartInit, StartPort, Begin, fileVars
<1>2. ASSUME NEW f \in Files, CopyFile(f) PROVE UNCHANGED ignore
  BY <1>2 DEF CopyFile
<1>3. ASSUME NEW d \in Dirs, NEW f \in Files, Edit(d, f)
      PROVE  UNCHANGED ignore
  BY <1>3 DEF Edit
<1>4. CASE CreatePackageJson \/ WriteEmptyHardhatConfig \/ InstallDependencies
  BY <1>4 DEF CreatePackageJson, WriteEmptyHardhatConfig, InstallDependencies
<1>5. CASE ChooseAction \/ ConfirmProject \/ CheckSampleProject
           \/ DecideOnDependencies
  BY <1>5 DEF ChooseAction, ConfirmProject, CheckSampleProject,
              DecideOnDependencies, fileVars
<1>6. CASE FetchFails \/ Fetched \/ ConfirmDiff
  BY <1>6 DEF FetchFails, Fetched, ConfirmDiff, fileVars
<1>. QED BY <1>1, <1>2, <1>3, <1>4, <1>5, <1>6 DEF Next, vars

\* A file that is written in the place of another takes over its marks.
LEMMA WriteLoses ==
  ASSUME TypeOK, NEW d \in Dirs, NEW f \in Files, NEW content \in Contents,
         Write(d, f, content), NEW e \in Dirs, NEW g \in Files,
         LosesUserContent(e, g)
  PROVE  /\ e = d /\ g = f
         /\ ~(content.origin = disk[d][f].origin /\ content.edited = disk[d][f].edited)
         /\ Present(d, f)
<1>1. <<e, g>> = <<d, f>>
  BY Written DEF LosesUserContent
<1>2. disk'[d][f] = content
  BY Written
<1>3. disk[d][f] \in Contents
  BY DEF TypeOK
<1>. QED BY <1>1, <1>2, <1>3 DEF LosesUserContent, Present, Contents

\* copySampleProject and portProject: no step of any command loses what the
\* user wrote, but for a file edited since it was read, the file that a killed
\* command was writing, and the configuration an empty project replaces.
THEOREM OnlyStaleFilesLost == Spec => LosesOnlyStaleFiles
<1>. DEFINE A == \A d \in Dirs, f \in Files :
       LosesUserContent(d, f) =>
         <<d, f>> \in touched \/ kills' # kills \/ pc = "config"
<1>1. IInv /\ [Next]_vars => A
  <2>. SUFFICES ASSUME IInv, [Next]_vars, NEW d \in Dirs, NEW f \in Files,
                       LosesUserContent(d, f)
                PROVE  <<d, f>> \in touched \/ kills' # kills \/ pc = "config"
    OBVIOUS
  <2>. USE DEF IInv, Commanded
  <2>1. CASE CreatePackageJson
    <3>1. File("stub", {}) \in Contents
      BY ContentFacts DEF Origins
    <3>2. d = "here" /\ f = "package" /\ Present("here", "package")
      BY <2>1, <3>1, NameFacts, WriteLoses DEF CreatePackageJson
    <3>. QED BY <2>1, <3>2 DEF CreatePackageJson, InitStages
  <2>2. CASE WriteEmptyHardhatConfig
    BY <2>2 DEF WriteEmptyHardhatConfig
  <2>3. CASE InstallDependencies
    BY <2>3, InstallKeeps DEF LosesUserContent
  <2>4. ASSUME NEW g \in Files, CopyFile(g) PROVE FALSE
    <3>. DEFINE content == File("sample", IF g \in ConfigFiles
                                          THEN {"plugin", "extras"} ELSE {})
    <3>1. content \in Contents /\ job.root \in Dirs
      BY NameFacts, ContentFacts DEF Origins, Traits
    <3>2. \/ UNCHANGED disk
          \/ Write(job.root, g, content) /\ ~(g = "readme" /\ Present(job.root, g))
      BY <2>4 DEF CopyFile
    <3>3. ~Present(job.root, g) \/ UNCHANGED disk
      BY <2>4, <3>2 DEF CopyFile, InitStages
    <3>. HIDE DEF content
    <3>. QED BY <3>1, <3>2, <3>3, WriteLoses DEF LosesUserContent
  <2>5. CASE WritePorted
    <3>1. /\ job.root \in Dirs /\ plan.name \in Files /\ "package" \in Files
          /\ plan.package \in Contents /\ plan.config \in Contents
      BY NameFacts DEF TypeOK
    <3>2. CASE pc = "portPackage"
      <4>1. Write(job.root, "package", plan.package)
        BY <2>5, <3>2 DEF WritePorted
      <4>. QED BY <3>1, <3>2, <4>1, WriteLoses DEF PortStages, Kept
    <3>3. CASE pc = "portConfig"
      <4>1. Write(job.root, plan.name, plan.config)
        BY <2>5, <3>3 DEF WritePorted
      <4>. QED BY <3>1, <3>3, <4>1, WriteLoses DEF PortStages, Kept
    <3>4. CASE pc = "portIgnore"
      BY <2>5, <3>4 DEF WritePorted, LosesUserContent
    <3>. QED BY <2>5, <3>2, <3>3, <3>4 DEF WritePorted
  <2>6. CASE Kill
    BY <2>6, SetupAssumption DEF Kill, TypeOK
  <2>7. ASSUME NEW e \in Dirs, NEW g \in Files, Edit(e, g) PROVE FALSE
    BY <2>7 DEF Edit, Write, TypeOK, LosesUserContent, Contents
  <2>8. CASE UNCHANGED disk
    BY <2>8 DEF LosesUserContent
  <2>. QED BY <2>1, <2>2, <2>3, <2>4, <2>5, <2>6, <2>7, <2>8, FilesUntouched
<1>2. A => [A]_vars
  OBVIOUS
<1>. QED BY <1>1, <1>2, Invariant, PTL DEF Spec, LosesOnlyStaleFiles

\* addOrMergeGitIgnore: for every recommended file and every .gitignore, what
\* a command finds when it writes stays at the beginning, and no line of it is
\* repeated; unless a kill cuts the file off, or the user edited it while port
\* waited for the answer.
THEOREM IgnoreGrows == Spec => IgnoreOnlyGrows
<1>. DEFINE A == \A d \in Dirs :
       ignore'[d] # ignore[d] /\ ignore[d] # <<>> /\ edits' = edits =>
         \/ Extends(ignore'[d], ignore[d])
         \/ kills' # kills \/ <<d, ".gitignore">> \in touched
<1>1. IInv /\ [Next]_vars => A
  <2>. SUFFICES ASSUME IInv, [Next]_vars, NEW d \in Dirs,
                       ignore'[d] # ignore[d], ignore[d] # <<>>, edits' = edits,
                       kills' = kills, <<d, ".gitignore">> \notin touched
                PROVE  Extends(ignore'[d], ignore[d])
    OBVIOUS
  <2>. USE DEF IInv, Commanded
  <2>1. ~Kill
    BY SetupAssumption DEF Kill, TypeOK
  <2>2. ~ \E e \in Dirs : EditIgnore(e)
    BY SetupAssumption DEF EditIgnore, Touch, TypeOK
  <2>3. WriteGitIgnore \/ WritePorted
    BY <2>1, <2>2, IgnoreUntouched
  <2>4. ignore'[d] = MergeIgnore(ignore[d])
    BY <2>3 DEF WriteGitIgnore, WritePorted, TypeOK, PortStages, Porting
  <2>. QED BY <2>4, MergeFacts DEF TypeOK
<1>2. A => [A]_vars
  OBVIOUS
<1>. QED BY <1>1, <1>2, Invariant, PTL DEF Spec, IgnoreOnlyGrows
=============================================================================
