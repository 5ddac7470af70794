---------------------------- MODULE ProjectSetup ----------------------------
(***************************************************************************)
(* The command line tool at work on a project: `hardhat-polkadot init`     *)
(* (createProject) and `hardhat-polkadot port` (portProject, migrator),    *)
(* run one after the other, killed at any moment, and interleaved with the *)
(* user, who edits files whenever no command runs or one waits for an      *)
(* answer, the network or the package manager.                             *)
(*                                                                         *)
(* Simplifications: "source" stands for the sample files that are neither  *)
(* configuration nor README; a file that was being written when the        *)
(* command was killed is empty (torn); of a package.json only its type,    *)
(* the plugin and the sample's other dependencies (all or none) are seen,  *)
(* of a configuration only the import of the plugin and its network        *)
(* settings.                                                               *)
(***************************************************************************)
EXTENDS GitIgnore, FiniteSets

CONSTANTS
  MaxCommands,  \* bound on the commands run
  MaxKills,     \* bound on the commands killed
  MaxEdits,     \* bound on the user's edits
  Projects,     \* the files before the first command
  UserIgnores   \* what the user may have, or put, in a .gitignore

VARIABLES
  disk,      \* disk[d][f]: file f of directory d
  exists,    \* the directories that exist
  ignore,    \* ignore[d]: .gitignore of directory d
  pc,        \* what the running command does next
  job,       \* its arguments and the answers so far
  plan,      \* what port is going to write
  touched,   \* files edited since the command read them
  outcome,   \* how the last command ended
  commands, kills, edits   \* so far

fileVars == <<disk, exists, ignore>>
counters == <<commands, kills, edits>>
vars == <<disk, exists, ignore, pc, job, plan, touched, outcome,
          commands, kills, edits>>

Dirs == {"here", "elsewhere"}

ConfigFiles == {"config.cjs", "config.js", "config.ts"}

Files == {"package", "source", "readme"} \cup ConfigFiles

\* "plugin": depends on the plugin, or imports it.  "extras": the sample's
\* other dependencies, or the network settings.  "module": "type": "module".
Traits == {"plugin", "extras", "module"}

Origins == {"absent", "user", "stub", "empty", "sample", "torn"}

Contents ==
  {c \in [origin : Origins, has : SUBSET Traits, edited : BOOLEAN] :
     c.origin = "absent" => c.has = {} /\ ~c.edited}

File(origin, has) == [origin |-> origin, has |-> has, edited |-> FALSE]

Missing == File("absent", {})
Torn == File("torn", {})

ASSUME SetupAssumption ==
  /\ MaxCommands \in Nat /\ MaxKills \in Nat /\ MaxEdits \in Nat
  /\ Projects \subseteq
       [Files -> {c \in Contents : c.origin \in {"absent", "user"}}]
  /\ UserIgnores \subseteq Seq(Lines)

Kinds == {"javascript", "typescript", "viem", "empty"}

Prompts == {"menu", "where", "deps", "install", "fetch", "confirm"}

Writing == {"package", "config", "ignore", "copy",
            "portPackage", "portConfig", "portIgnore"}

Labels == {"idle", "check"} \cup Prompts \cup Writing

\* "instructed": created, and told which dependencies to install.
Outcomes == {"none", "created", "instructed", "config", "ported", "unchanged",
             "declined", "cancelled", "refused", "error", "killed"}

TypeOK ==
  /\ disk \in [Dirs -> [Files -> Contents]]
  /\ exists \in SUBSET Dirs
  /\ ignore \in [Dirs -> Seq(Lines)]
  /\ pc \in Labels
  /\ job \in [root : Dirs, kind : Kinds, yes : BOOLEAN, seen : BOOLEAN,
              esm : BOOLEAN, left : SUBSET Files]
  /\ plan \in [package : Contents, packageChanged : BOOLEAN,
               name : ConfigFiles, config : Contents, ignore : Seq(Lines)]
  /\ touched \in SUBSET (Dirs \X (Files \cup {".gitignore"}))
  /\ outcome \in Outcomes
  /\ commands \in 0 .. MaxCommands /\ kills \in 0 .. MaxKills
  /\ edits \in 0 .. MaxEdits

NoJob == [root |-> "here", kind |-> "empty", yes |-> FALSE, seen |-> FALSE,
          esm |-> FALSE, left |-> {}]

NoPlan == [package |-> Missing, packageChanged |-> FALSE,
           name |-> "config.js", config |-> Missing, ignore |-> <<>>]

\* A project of the user's, or nothing, in the working directory.
Init ==
  /\ \E project \in Projects :
       disk = [d \in Dirs |->
                 IF d = "here" THEN project ELSE [f \in Files |-> Missing]]
  /\ exists = {"here"}
  /\ \E old \in UserIgnores :
       ignore = [d \in Dirs |-> IF d = "here" THEN old ELSE <<>>]
  /\ pc = "idle"
  /\ job = NoJob
  /\ plan = NoPlan
  /\ touched = {}
  /\ outcome = "none"
  /\ commands = 0
  /\ kills = 0
  /\ edits = 0

-----------------------------------------------------------------------------

Present(d, f) == disk[d][f].origin # "absent"

Goto(label) == pc' = label /\ UNCHANGED outcome

Finish(result) == pc' = "idle" /\ outcome' = result

Write(d, f, content) == disk' = [disk EXCEPT ![d][f] = content]

\* The configuration file of a sample, or of an empty project.
ConfigName(kind, esm) ==
  CASE kind \in {"javascript", "empty"} ->
         IF esm THEN "config.cjs" ELSE "config.js"
    [] kind \in {"typescript", "viem"} -> "config.ts"

SampleFiles == {ConfigName(job.kind, job.esm), "source", "readme"}

\* Mutant: only the configuration is looked for.
ConfigClashes == {ConfigName(job.kind, job.esm)} \cap
                   {f \in Files : Present(job.root, f)}

\* The sample files that are there already; a README is no obstacle.
Clashes == {f \in SampleFiles \ {"readme"} : Present(job.root, f)}

\* Mutant: the last file is forgotten.
SomeCopied(left) == Cardinality(left) <= 1

AllCopied(left) == left = {}

Begin(cmdJob) ==
  /\ pc = "idle" /\ commands < MaxCommands
  /\ commands' = commands + 1
  /\ job' = cmdJob
  /\ touched' = {}
  /\ UNCHANGED <<fileVars, kills, edits>>

-----------------------------------------------------------------------------
(* init *)

\* createProject reads package.json; what it finds decides on ESM.  With -y
\* or the environment's defaults, nothing is asked later.
StartInit ==
  /\ \E kind \in Kinds, yes \in BOOLEAN :
        /\ yes => kind # "empty"
        /\ Begin([NoJob EXCEPT !.kind = kind, !.yes = yes,
                               !.seen = Present("here", "package"),
                               !.esm = "module" \in disk["here"]["package"].has])
  /\ IF disk["here"]["package"].origin = "torn"
     THEN Finish("error")
     ELSE pc' = "menu" /\ outcome' = "none"
  /\ plan' = NoPlan

\* What follows package.json.
AfterPackage ==
  Goto(IF job.kind = "empty" THEN "config"
       ELSE IF job.yes THEN "ignore" ELSE "where")

\* getAction and the checks behind it.  The menu of an ESM project has no
\* entry for viem; the environment may ask for it all the same.
ChooseAction ==
  /\ pc = "menu"
  /\ \/ ~job.yes /\ Finish("cancelled")
     \/ job.esm /\ job.kind = "typescript" /\ Finish("error")
     \/ /\ ~(job.esm /\ job.kind = "typescript")
        /\ (job.esm /\ job.kind = "viem") => job.yes
        /\ IF job.seen THEN AfterPackage ELSE Goto("package")
  /\ UNCHANGED <<fileVars, job, plan, touched, counters>>

CreatePackageJson ==
  /\ pc = "package"
  /\ Write("here", "package", File("stub", {}))
  /\ AfterPackage
  /\ UNCHANGED <<exists, ignore, job, plan, touched, counters>>

WriteEmptyHardhatConfig ==
  /\ pc = "config"
  /\ Write("here", ConfigName("empty", job.esm),
           File("empty", {"plugin", "extras"}))
  /\ IF "plugin" \in disk["here"]["package"].has THEN Finish("config")
     ELSE Goto("install")
  /\ UNCHANGED <<exists, ignore, job, plan, touched, counters>>

\* confirmProjectCreation.
ConfirmProject ==
  /\ pc = "where"
  /\ \/ Finish("cancelled") /\ UNCHANGED job
     \/ \E root \in Dirs, addIgnore \in BOOLEAN :
          /\ job' = [job EXCEPT !.root = root]
          /\ Goto(IF addIgnore THEN "ignore" ELSE "check")
  /\ UNCHANGED <<fileVars, plan, touched, counters>>

\* writeFile throws in a directory that does not exist yet.
WriteGitIgnore ==
  /\ pc = "ignore"
  /\ IF job.root \in exists
     THEN /\ ignore' = [ignore EXCEPT ![job.root] = MergeIgnore(@)]
          /\ Goto("check")
     ELSE UNCHANGED ignore /\ Finish("error")
  /\ UNCHANGED <<disk, exists, job, plan, touched, counters>>

\* copySampleProject up to the copy.
CheckSampleProject ==
  /\ pc = "check"
  /\ IF job.esm /\ job.kind # "javascript"
     THEN Finish("error") /\ UNCHANGED <<exists, job>>
     ELSE /\ exists' = exists \cup {job.root}
          /\ IF Clashes # {} THEN Finish("refused") /\ UNCHANGED job
             ELSE Goto("copy") /\ job' = [job EXCEPT !.left = SampleFiles]
  /\ UNCHANGED <<disk, ignore, plan, touched, counters>>

CopyFile(f) ==
  /\ pc = "copy" /\ f \in job.left
  /\ IF f = "readme" /\ Present(job.root, f) THEN UNCHANGED disk
     ELSE Write(job.root, f,
                File("sample", IF f \in ConfigFiles THEN {"plugin", "extras"}
                                                    ELSE {}))
  /\ job' = [job EXCEPT !.left = @ \ {f}]
  /\ Goto(IF AllCopied(job'.left) THEN "deps" ELSE "copy")
  /\ UNCHANGED <<exists, ignore, plan, touched, counters>>

\* The recommended dependencies are looked up, and installed, in the working
\* directory, whatever the project root is.
DecideOnDependencies ==
  /\ pc = "deps"
  /\ LET has == disk["here"]["package"].has
     IN \/ {"plugin", "extras"} \subseteq has /\ Finish("created")
        \/ "extras" \in has /\ "plugin" \notin has /\ Finish("instructed")
        \/ "extras" \notin has /\ (Goto("install")
                                     \/ (~job.yes /\ Finish("instructed")))
  /\ UNCHANGED <<fileVars, job, plan, touched, counters>>

\* Mutant: a failed installation is one that was made.
InstallsAnyway ==
  /\ pc = "install"
  /\ \/ disk' = [disk EXCEPT !["here"]["package"].has =
                     @ \cup {"plugin", "extras"}]
     \/ UNCHANGED disk
  /\ Finish(IF job.kind = "empty" THEN "config" ELSE "created")
  /\ UNCHANGED <<exists, ignore, job, plan, touched, counters>>

\* The package manager adds the dependencies to package.json, or fails: the
\* promise is then rejected, not resolved with false.
InstallDependencies ==
  /\ pc = "install"
  /\ \/ /\ disk' = [disk EXCEPT !["here"]["package"].has =
                       @ \cup {"plugin", "extras"}]
        /\ Finish(IF job.kind = "empty" THEN "config" ELSE "created")
     \/ UNCHANGED disk /\ Finish("error")
  /\ UNCHANGED <<exists, ignore, job, plan, touched, counters>>

-----------------------------------------------------------------------------
(* port *)

\* updatePackageJSON reads the file, then asks the registry.  The new text
\* differs at least when the plugin is new, and may differ in versions, the
\* rest of the layout, or not at all.
StartPort ==
  /\ \E d \in Dirs, yes \in BOOLEAN :
        /\ Begin([NoJob EXCEPT !.root = d, !.yes = yes])
        /\ LET old == disk[d]["package"]
           IN IF old.origin \in {"absent", "torn"}
              THEN Finish("error") /\ UNCHANGED plan
              ELSE /\ \E changed \in BOOLEAN :
                        /\ "plugin" \notin old.has => changed
                        /\ plan' = [NoPlan EXCEPT
                             !.package = [old EXCEPT !.has = @ \cup {"plugin"}],
                             !.packageChanged = changed]
                   /\ pc' = "fetch" /\ outcome' = "none"

\* No answer, or hardhat is too new.
FetchFails ==
  /\ pc = "fetch"
  /\ Finish("error")
  /\ UNCHANGED <<fileVars, job, plan, touched, counters>>

InsertImport(config) == [config EXCEPT !.has = @ \cup {"plugin"}]

\* The exported object gets the network settings, if one is found: an empty
\* file exports nothing, and a user may export what is not recognised.
PatchExportConfig(config) ==
  LET patched == [config EXCEPT !.has = @ \cup {"extras"}]
  IN CASE config.origin = "torn" -> {config}
       [] config.origin = "user" -> {config, patched}
       [] OTHER -> {patched}

\* Mutants: a missing configuration is not an error; all three files must
\* have changed.
AnyConfig(d) == ConfigFiles
AllChanged(d, new) ==
  /\ new.packageChanged
  /\ new.config # disk[d][new.name] /\ new.ignore # ignore[d]

\* updateHHConfig takes some hardhat.config.* of the directory.
Configs(d) == {f \in ConfigFiles : Present(d, f)}

Changed(d, new) ==
  \/ new.packageChanged
  \/ new.config # disk[d][new.name] \/ new.ignore # ignore[d]

\* updateHHConfig, addOrMergeGitIgnore and the diffs.
Fetched ==
  /\ pc = "fetch"
  /\ \/ Configs(job.root) = {} /\ Finish("error") /\ UNCHANGED plan
     \/ \E f \in Configs(job.root) :
          /\ \E new \in PatchExportConfig(InsertImport(disk[job.root][f])) :
               plan' = [plan EXCEPT !.name = f, !.config = new,
                                    !.ignore = MergeIgnore(ignore[job.root])]
          /\ IF ~Changed(job.root, plan') THEN Finish("unchanged")
             ELSE Goto(IF job.yes THEN "portPackage" ELSE "confirm")
  /\ UNCHANGED <<fileVars, job, touched, counters>>

ConfirmDiff ==
  /\ pc = "confirm"
  /\ Goto("portPackage") \/ Finish("declined") \/ Finish("error")
  /\ UNCHANGED <<fileVars, job, plan, touched, counters>>

WritePorted ==
  /\ \/ /\ pc = "portPackage" /\ Goto("portConfig")
        /\ Write(job.root, "package", plan.package) /\ UNCHANGED ignore
     \/ /\ pc = "portConfig" /\ Goto("portIgnore")
        /\ Write(job.root, plan.name, plan.config) /\ UNCHANGED ignore
     \/ /\ pc = "portIgnore" /\ Finish("ported")
        /\ ignore' = [ignore EXCEPT ![job.root] = plan.ignore]
        /\ UNCHANGED disk
  /\ UNCHANGED <<exists, job, plan, touched, counters>>

-----------------------------------------------------------------------------
(* The user. *)

\* What the running command will write without reading it again.
AlreadyRead ==
  CASE pc = "menu" -> {<<"here", "package">>}
    [] pc = "fetch" -> {<<job.root, "package">>}
    [] pc = "confirm" -> {<<job.root, "package">>, <<job.root, plan.name>>,
                          <<job.root, ".gitignore">>}
    [] OTHER -> {}

Touch(d, f) ==
  /\ pc \in {"idle"} \cup Prompts
  /\ d \in exists
  /\ edits < MaxEdits
  /\ edits' = edits + 1
  /\ touched' = touched \cup ({<<d, f>>} \cap AlreadyRead)
  /\ UNCHANGED <<exists, pc, job, plan, outcome, commands, kills>>

Edit(d, f) ==
  /\ f \in {"package"} \cup ConfigFiles /\ Touch(d, f)
  /\ Write(d, f, [disk[d][f] EXCEPT !.origin = "user", !.edited = TRUE])
  /\ UNCHANGED ignore

EditIgnore(d) ==
  /\ Touch(d, ".gitignore")
  /\ \E new \in UserIgnores : ignore' = [ignore EXCEPT ![d] = new]
  /\ UNCHANGED disk

\* The file that is being written.
Open ==
  CASE pc = "package" -> <<"here", "package">>
    [] pc = "config" -> <<"here", ConfigName("empty", job.esm)>>
    [] pc = "portPackage" -> <<job.root, "package">>
    [] pc = "portConfig" -> <<job.root, plan.name>>

\* The command is killed, and leaves the file it writes as it was or empty.
Kill ==
  /\ pc # "idle" /\ kills < MaxKills
  /\ kills' = kills + 1
  /\ \/ UNCHANGED <<disk, ignore>>
     \/ /\ pc \in {"package", "config", "portPackage", "portConfig"}
        /\ Write(Open[1], Open[2], Torn) /\ UNCHANGED ignore
     \/ /\ pc = "copy"
        /\ \E f \in job.left :
             /\ f = "readme" => ~Present(job.root, f)
             /\ Write(job.root, f, Torn)
        /\ UNCHANGED ignore
     \/ /\ pc \in {"ignore", "portIgnore"} /\ job.root \in exists
        /\ ignore' = [ignore EXCEPT ![job.root] = <<>>] /\ UNCHANGED disk
  /\ Finish("killed")
  /\ UNCHANGED <<exists, job, plan, touched, commands, edits>>

Next ==
  \/ StartInit \/ ChooseAction \/ CreatePackageJson
  \/ WriteEmptyHardhatConfig \/ ConfirmProject \/ WriteGitIgnore
  \/ CheckSampleProject \/ (\E f \in Files : CopyFile(f))
  \/ DecideOnDependencies \/ InstallDependencies
  \/ StartPort \/ FetchFails \/ Fetched \/ ConfirmDiff \/ WritePorted
  \/ Kill \/ \E d \in Dirs : EditIgnore(d) \/ \E f \in Files : Edit(d, f)

Spec == Init /\ [][Next]_vars

-----------------------------------------------------------------------------
(* Properties. *)

\* What the user wrote into file f is gone.
LosesUserContent(d, f) ==
  \/ disk[d][f].origin = "user" /\ disk'[d][f].origin # "user"
  \/ disk[d][f].edited /\ ~disk'[d][f].edited

\* copySampleProject and portProject: no command, completed, refused, failed
\* or repeated, loses a file or an edit of the user's, except one made while
\* the command waited, the file a killed command was writing, and the
\* configuration that an empty project replaces.
LosesOnlyStaleFiles ==
  [][\A d \in Dirs, f \in Files :
       LosesUserContent(d, f) =>
         <<d, f>> \in touched \/ kills' # kills \/ pc = "config"]_vars

\* addOrMergeGitIgnore: however often the commands run, what one writes to a
\* .gitignore keeps every line that the file has when it is written, and
\* repeats none; unless the command is killed while it writes it, or the user
\* edited it since port read it, while port waited for an answer.
IgnoreOnlyGrows ==
  [][\A d \in Dirs :
       ignore'[d] # ignore[d] /\ ignore[d] # <<>> /\ edits' = edits =>
         \/ Extends(ignore'[d], ignore[d])
         \/ kills' # kills \/ <<d, ".gitignore">> \in touched]_vars

Ported ==
  /\ "plugin" \in disk[job.root]["package"].has
  /\ "plugin" \in disk[job.root][plan.name].has
  /\ CoversRecommended(ignore[job.root])

\* portProject: a port that ends well leaves all three files ported, also when
\* it follows one that was killed between or in its writes.
PortIsComplete ==
  [][pc # "idle" /\ outcome' \in {"ported", "unchanged"} => Ported']_vars

\* A sample file that was copied as a whole or is the user's; a README may be
\* one that a killed init cut off, for the next init takes it for the user's.
Whole(d, f) ==
  \/ disk[d][f].origin \in {"sample", "user"}
  \/ f = "readme" /\ disk[d][f].origin = "torn" /\ kills > 0

\* createProject: "Project created" is only said of a directory that holds
\* the whole sample project; and without instructions for an installation
\* only when the working directory's package.json has all dependencies, those
\* that were there or those of an installation that succeeded.
CreatedIsComplete ==
  /\ outcome \in {"created", "instructed"} =>
       \A f \in SampleFiles : Whole(job.root, f)
  /\ outcome = "created" =>
       {"plugin", "extras"} \subseteq disk["here"]["package"].has
=============================================================================
