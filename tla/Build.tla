-------------------------------- MODULE Build --------------------------------
(***************************************************************************)
(* cargo xtask (wrac_xtask/src/plan.rs and commands.rs): a command is      *)
(* planned as a graph of tasks and executed one task at a time, in the     *)
(* order of the graph.  A task can fail, and the command can be killed,    *)
(* with part of the task's work on disk; the next command starts from      *)
(* there.  The developer edits sources and metadata at any time.           *)
(*                                                                         *)
(* One package, one profile, and one command at a time.  An artifact is    *)
(* the version of the oldest source in it, and lies under a name its       *)
(* manifest gives it.  cargo, npm, cmake, codesign and the validators are  *)
(* external: they work, or fail anywhere.  The targets a command names are *)
(* taken in the order of AllTasks.                                         *)
(***************************************************************************)
EXTENDS Integers, Sequences, SequencesExt, FiniteSetsExt, Rules

CONSTANTS
  Platform,    (* the operating system                                      *)
  Product,     (* what each version of the sources builds (module Rules)    *)
  Metas,       (* manifests; the arguments of cmake differ with them        *)
  Metadata,    (* what each says (module Rules), and the bundle's name      *)
  DotEnv,      (* the .env file                                             *)
  Requests,    (* command lines                                             *)
  MaxRuns,     (* bound: commands                                           *)
  MaxEdits,    (* bound: edits                                              *)
  MaxFaults,   (* bound: tasks that need not fail, and kills                *)
  None

Targets  == PluginFormats \cup {"Standalone"}
Wrappers == {"plugins", "aax", "standalone"}
Scopes   == {"user", "system"}

EnvKeys   == {"AAX_SDK_ROOT", "AAX_VALIDATOR_DSH_ARCHIVE"}
EnvValues == {"unset", "empty", "nowhere", "there"}

(* The targets and scopes a command takes: plugin formats all but build,    *)
(* launch the standalone and nothing else.                                 *)
Takes(cmd) ==
  CASE cmd = "build"  -> SUBSET Targets
    [] cmd = "launch" -> {{"Standalone"}}
    [] cmd = "clean"  -> {{}}
    [] OTHER          -> SUBSET PluginFormats
TakesScope(cmd) ==
  CASE cmd = "install"   -> Scopes \cup {"default"}
    [] cmd = "uninstall" -> Scopes \cup {"all"}
    [] OTHER             -> {"default"}

CommandLines ==
  {r \in [cmd : {"build", "install", "uninstall", "validate", "clean", "launch"},
          named : SUBSET Targets,       (* --target; {}: what the product supports *)
          scope : Scopes \cup {"default", "all"},
          continues : BOOLEAN,          (* --continue-on-error              *)
          clean : BOOLEAN, dry : BOOLEAN,
          product : {None} \cup Nat,    (* --plugin-id                      *)
          env : [EnvKeys -> EnvValues], (* the environment it runs in       *)
          lacks : SUBSET {"wrapper", "vst3sdk", "AudioUnitSDK"}] :
     /\ r.named \in Takes(r.cmd) /\ r.scope \in TakesScope(r.cmd)
     /\ r.clean => r.cmd = "build"
     /\ r.dry \/ r.continues => r.cmd \notin {"clean", "launch"}}

ASSUME BuildAssumption ==
  /\ Platform \in {"macos", "windows", "linux"}
  /\ Metas # {} /\ \A m \in Metas : IsMetadata(Metadata[m])
  /\ DotEnv \in [EnvKeys -> EnvValues]
  /\ Requests \subseteq CommandLines
  /\ {MaxRuns, MaxEdits, MaxFaults} \subseteq Nat
  /\ \A v \in 1..MaxEdits + 1 : \A p \in DOMAIN Product[v].plugins :
       ToSet(Product[v].plugins[p]) \subseteq Parameters

VARIABLES
  src, meta,   (* the sources' version and the metadata, as edited last     *)
  disk,
  req, since,  (* the command, and the sources and metadata it began with   *)
  status,      (* statuses in execute_plan                                  *)
  phase,       (* "none", "run", or how the command ended                   *)
  runs, faults

vars == <<src, meta, disk, req, since, status, phase, runs, faults>>

Absent == 0
Torn   == -1    (* part of a bundle, or of a directory                      *)

(***************************************************************************)
(* Names of artifacts (metadata.rs *_bundle_name, context.rs               *)
(* standalone_artifacts): the bundle's name for all formats, a name of its *)
(* own for the standalone of each plug-in                                  *)
(***************************************************************************)
BundleName(m) == Metadata[m].name
NamesOf(T, m) ==
  IF T = "Standalone" THEN {Metadata[m].plugins[i].standalone : i \in DOMAIN Metadata[m].plugins}
  ELSE {BundleName(m)}
Names   == UNION {NamesOf(T, m) : T \in Targets, m \in Metas}
Nothing == [n \in Names |-> Absent]

(***************************************************************************)
(* Targets of a command (plan.rs resolve_*, targets.rs)                    *)
(***************************************************************************)
SupportedHere(T) ==
  CASE T \in {"Clap", "Vst3", "Standalone"} -> TRUE
    [] T = "Au"  -> Platform = "macos"
    [] T = "Aax" -> Platform \in {"macos", "windows"}

Resolve(r, m) ==
  IF r.named # {} THEN r.named
  ELSE {T \in FormatsOf(Metadata[m]) \cup (IF r.cmd = "build" THEN {"Standalone"} ELSE {}) :
          SupportedHere(T)}

(* The product launch opens: the named one, or the only one.               *)
Launchable(r, m) ==
  LET plugins == Metadata[m].plugins
  IN IF r.product = None THEN Len(plugins) = 1
     ELSE \E i \in DOMAIN plugins : plugins[i].id = r.product
Launched(r, m) ==
  CHOOSE p \in ToSet(Metadata[m].plugins) : r.product \in {None, p.id}

(* An explicit target is a request, not a hint.                            *)
Refused(r, m) ==
  \/ ~MetadataAccepted(Metadata[m])
  \/ (r.named \cap PluginFormats) \ FormatsOf(Metadata[m]) # {}
  \/ \E T \in r.named : ~SupportedHere(T)
  \/ r.cmd = "launch" /\ ~Launchable(r, m)

(***************************************************************************)
(* The task graph (plan.rs build_graph): a task is <<kind, of what>>, and  *)
(* AllTasks is the order in which nodes are added                          *)
(***************************************************************************)
AllTasks ==
  <<<<"scope", "Clap">>, <<"scope", "Vst3">>, <<"scope", "Au">>, <<"scope", "Aax">>,
    <<"clean", "all">>, <<"gui", "all">>,
    <<"rust", "default">>, <<"rust", "standalone">>,
    <<"build", "Clap">>, <<"configure", "plugins">>,
    <<"build", "Vst3">>, <<"build", "Au">>,
    <<"configure", "aax">>, <<"build", "Aax">>,
    <<"configure", "standalone">>, <<"build", "Standalone">>,
    <<"install", "Clap">>, <<"install", "Vst3">>, <<"install", "Au">>, <<"install", "Aax">>,
    <<"rules", "all">>, <<"validate", "Clap">>, <<"validate", "Vst3">>,
    <<"validate", "Au">>, <<"install for validation", "Au">>, <<"validate", "Aax">>,
    <<"uninstall", "Clap">>, <<"uninstall", "Vst3">>, <<"uninstall", "Au">>,
    <<"uninstall", "Aax">>, <<"launch", "Standalone">>>>

NodeIndex ==
  [t \in ToSet(AllTasks) |-> CHOOSE i \in DOMAIN AllTasks : AllTasks[i] = t]

Wrapper(T) == CASE T \in {"Vst3", "Au"} -> "plugins"
                [] T = "Aax"            -> "aax"
                [] T = "Standalone"     -> "standalone"

RustOf(w) == IF w = "standalone" THEN "standalone" ELSE "default"
BuiltFrom(T) == IF T = "Standalone" THEN "standalone" ELSE "default"

(* What it takes to have the artifacts of some targets.                    *)
Each(kind, ts) == {<<kind, T>> : T \in ts}
Making(ts) ==
  Each("build", ts) \cup {<<"configure", Wrapper(T)>> : T \in ts \ {"Clap"}}
  \cup {<<"rust", BuiltFrom(T)>> : T \in ts} \cup {<<"gui", "all">> : T \in ts}

(* Tasks of one command: its terminal tasks and all they need.  Validation *)
(* packages CLAP whatever it validates; launch builds the standalone, then *)
(* opens it.                                                               *)
Nodes(r, m) ==
  LET ts == Resolve(r, m)
  IN CASE r.cmd = "build"     -> Making(ts) \cup (IF r.clean THEN {<<"clean", "all">>} ELSE {})
       [] r.cmd = "install"   -> Making(ts) \cup Each("scope", ts) \cup Each("install", ts)
       [] r.cmd = "uninstall" -> Each("uninstall", ts)
       [] r.cmd = "validate"  -> Making(ts \cup {"Clap"}) \cup Each("validate", ts)
                                 \cup {<<"rules", "all">>}
                                 \cup Each("install for validation", ts \cap {"Au"})
       [] r.cmd = "clean"     -> {<<"clean", "all">>}
       [] r.cmd = "launch"    -> Making(ts) \cup Each("launch", ts)

(* <<dependency, dependent>>, for all commands: those of one are the pairs *)
(* whose tasks it has.                                                     *)
Edges ==
  {<<<<"clean", "all">>, <<"gui", "all">>>>, <<<<"rust", "default">>, <<"build", "Clap">>>>,
   <<<<"scope", "Clap">>, <<"build", "Clap">>>>, <<<<"build", "Clap">>, <<"rules", "all">>>>,
   <<<<"build", "Au">>, <<"install for validation", "Au">>>>,
   <<<<"install for validation", "Au">>, <<"validate", "Au">>>>,
   <<<<"build", "Standalone">>, <<"launch", "Standalone">>>>}
  \cup {<<<<"gui", "all">>, <<"rust", b>>>> : b \in {"default", "standalone"}}
  \cup {<<<<"rust", RustOf(w)>>, <<"configure", w>>>> : w \in Wrappers}
  \cup {<<<<"scope", T>>, <<"configure", Wrapper(T)>>>> : T \in PluginFormats \ {"Clap"}}
  \cup {<<<<"configure", Wrapper(T)>>, <<"build", T>>>> : T \in Targets \ {"Clap"}}
  \cup {<<<<"build", T>>, <<"install", T>>>> : T \in PluginFormats}
  \cup {<<<<"rules", "all">>, <<"validate", T>>>> : T \in PluginFormats}
  \cup {<<<<"build", T>>, <<"validate", T>>>> : T \in PluginFormats \ {"Au"}}

Needs == [t \in ToSet(AllTasks) |-> {e[1] : e \in {x \in Edges : x[2] = t}}]

(* Slip: nothing waits for the Rust build.                                 *)
DependsOnSlip(t) ==
  {d \in Needs[t] : d[1] # "rust"} \cap DOMAIN status
DependsOn(t) == Needs[t] \cap DOMAIN status

(***************************************************************************)
(* Scopes (commands.rs install_dir, uninstall_scopes,                      *)
(* effective_install_scope)                                                *)
(***************************************************************************)
HasDir(s, T) == SupportedHere(T) /\ ~(s = "user" /\ T = "Aax")

Destination(s, T) ==
  IF s = "default" THEN (IF T = "Aax" THEN "system" ELSE "user") ELSE s

(* Slip: the default scope of an installation also for --scope=all.        *)
UninstallScopesSlip(s, T) == {IF s = "all" THEN Destination("default", T) ELSE s}
UninstallScopes(s, T) ==
  CASE s # "all" -> {s}
    [] s = "all" /\ T = "Aax" /\ Platform # "linux" -> {"system"}
    [] OTHER -> Scopes

(***************************************************************************)
(* What a task does to the disk (plan.rs run_task, commands.rs).  Full: the*)
(* disks it can end with when it succeeds, none if it must fail.  Part: the*)
(* disks it can leave otherwise.                                           *)
(***************************************************************************)
Older(a, b) == IF a < b THEN a ELSE b

(* target/wrac goes: caches, bundles, the standalone's cargo directory.    *)
Cleaned(d, S) ==
  [d EXCEPT !.lib["standalone"] = IF "cargo" \in S THEN Absent ELSE @,
            !.cache  = IF "cmake" \in S THEN [w \in Wrappers |-> None] ELSE @,
            !.stamp  = IF "cmake" \in S THEN [w \in Wrappers |-> None] ELSE @,
            !.bundle = [T \in Targets |->
              IF (IF T = "Standalone" THEN "standalone" ELSE "plugins") \in S
                THEN Nothing ELSE @[T]],
            !.passed = IF "validation" \in S THEN Absent ELSE @]
WracDir == {"cargo", "cmake", "plugins", "standalone", "validation"}

(* The bundler empties dist before it fills it again.                      *)
GuiBuilt(d) == [d EXCEPT !.gui = src]
GuiPart(d)  == {d, [d EXCEPT !.gui = Torn], GuiBuilt(d)}

(* cargo looks at every source, and at the dist it embeds.                 *)
RustBuilt(b, d) == [d EXCEPT !.lib[b] = Older(src, d.gui)]

(* cmake names what it builds after the arguments in its cache, and builds *)
(* a standalone for each plug-in of the present manifest.                  *)
Writes(T, d) ==
  LET told == {d.cache[Wrapper(T)]} \ {None}
      plugins(m) == DOMAIN Metadata[m].plugins
  IN CASE T = "Clap"       -> {BundleName(since.meta)}
       [] T = "Standalone" -> UNION {{Metadata[m].plugins[i].standalone :
                                        i \in plugins(m) \cap plugins(since.meta)} : m \in told}
       [] OTHER            -> {BundleName(m) : m \in told}

Put(T, N, v, d) ==
  [d EXCEPT !.bundle[T] = [n \in Names |-> IF n \in N THEN v ELSE @[n]]]
Bundled(T, d) == Put(T, Writes(T, d), d.lib[BuiltFrom(T)], d)

(* ensure_exists: something must lie under the present manifest's names,   *)
(* whatever it is.                                                         *)
Exists(T, d) == \A n \in NamesOf(T, since.meta) : d.bundle[T][n] # Absent
HasTargets(T, d) ==
  /\ T # "Clap" => d.cache[Wrapper(T)] # None
  /\ T = "Standalone" => Len(Metadata[since.meta].plugins) <= Len(Metadata[d.cache["standalone"]].plugins)
BundleFull(T, d) ==
  IF d.lib[BuiltFrom(T)] > 0 /\ HasTargets(T, d) /\ Exists(T, Bundled(T, d))
    THEN {Bundled(T, d)} ELSE {}

(* package_clap removes the old bundle, cmake --build writes over it.      *)
BundlePart(T, d) ==
  LET written(N) == Put(T, N, d.lib[BuiltFrom(T)], d)
      some       == SUBSET Writes(T, d)
  IN {d} \cup {Put(T, M, Torn, written(N)) : M, N \in some}
         \cup (IF T = "Clap" THEN {Put(T, Writes(T, d), Absent, d)} ELSE {})

(* load_workspace_dotenv: a variable of the environment, were it empty,    *)
(* hides the one in .env.  env_path takes an empty one for none.           *)
Setting(k) == IF req.env[k] = "unset" THEN DotEnv[k] ELSE req.env[k]
EnvPath(k) == Setting(k) = "there"

(* The wrapper of VST3 and AU is configured for both where there are both. *)
HasVst3Sdk == "vst3sdk" \notin req.lacks
HasAuSdk   == SupportedHere("Au") => "AudioUnitSDK" \notin req.lacks
HasInputs(w) ==
  /\ "wrapper" \notin req.lacks
  /\ CASE w = "plugins"    -> HasVst3Sdk /\ HasAuSdk
       [] w = "aax"        -> EnvPath("AAX_SDK_ROOT")
       [] w = "standalone" -> TRUE

(* configure_wrapper: cmake runs unless the cache and a stamp of the same  *)
(* arguments are there; then the stamp is written.  cmake stores its       *)
(* arguments in the cache even when it fails later on.                     *)
IsCurrent(w, d) == d.cache[w] # None /\ d.stamp[w] = since.meta
Cached(w, d) == [d EXCEPT !.cache[w] = since.meta]
ConfigureFull(w, d) ==
  IF ~HasInputs(w) \/ d.lib[RustOf(w)] = Absent THEN {}
  ELSE IF IsCurrent(w, d) THEN {d}
  ELSE {[Cached(w, d) EXCEPT !.stamp[w] = since.meta]}
ConfigurePart(w, d) ==
  IF ~HasInputs(w) \/ d.lib[RustOf(w)] = Absent \/ IsCurrent(w, d) THEN {d}
  ELSE {d, Cached(w, d)}

(* What is installed of a format, under the present name, becomes v in some*)
(* scopes.                                                                 *)
Installed(T, S, v, d) ==
  [d EXCEPT !.installed =
     [s \in Scopes |->
        IF s \in S THEN [d.installed[s] EXCEPT ![T][BundleName(since.meta)] = v]
        ELSE d.installed[s]]]

(* What there is under the present name: built, and in a scope.            *)
Built(T, d)    == d.bundle[T][BundleName(since.meta)]
There(s, T, d) == d.installed[s][T][BundleName(since.meta)]

(* install_artifact: remove what is there, then copy.                      *)
InstallFull(T, s, d) ==
  IF HasDir(s, T) /\ Built(T, d) # Absent THEN {Installed(T, {s}, Built(T, d), d)} ELSE {}
InstallPart(T, s, d) ==
  {d} \cup (IF InstallFull(T, s, d) = {} THEN {}
            ELSE {Installed(T, {s}, v, d) : v \in {Absent, Torn, Built(T, d)}})

(* uninstall_plugin_target: all paths are known before the first goes, and *)
(* one that is not there is passed over.                                   *)
UninstallFull(T, S, d) ==
  IF \A s \in S : HasDir(s, T)
    THEN {IF req.dry THEN d ELSE Installed(T, S, Absent, d)} ELSE {}
(* The user's copy goes first.                                             *)
UninstallPart(T, S, d) ==
  LET users   == S \cap {"user"}
      torn(s) == Installed(T, {s}, Torn, Installed(T, users \ {s}, Absent, d))
  IN IF req.dry \/ UninstallFull(T, S, d) = {} THEN {d}
     ELSE {Installed(T, R, Absent, d) : R \in {{}, users, S}}
          \cup {torn(s) : s \in {x \in S : There(x, T, d) # Absent}}

(* validate_plugin_target.  The CLAP validator is downloaded and unpacked, *)
(* the VST3 one built, unless its executable exists.                       *)
ToolFull(T, d) ==
  IF (T = "Vst3" /\ ~HasVst3Sdk) \/ d.tool[T] = "torn" THEN {}
  ELSE {[d EXCEPT !.tool[T] = "ready"]}
ToolPart(T, d) ==
  CASE T = "Clap" /\ d.tool[T] \in {"none", "archive"} ->
         {d} \cup {[d EXCEPT !.tool[T] = x] : x \in {"archive", "torn", "ready"}}
    [] T = "Vst3" /\ HasVst3Sdk -> {d, [d EXCEPT !.tool[T] = "ready"]}
    [] OTHER -> {d}

(* run_aax_validator: the results go first, then DTT is unpacked anew from *)
(* the archive, whether or not it is there, and DTT may leave no result or *)
(* be killed by the timeout.                                               *)
FreshResults(d) == [d EXCEPT !.passed = Absent]
HasArchive == EnvPath("AAX_VALIDATOR_DSH_ARCHIVE")
Unpacked(d) == IF HasArchive THEN {[d EXCEPT !.tool["Aax"] = "ready"]} ELSE {}
UnpackedPart(d) == IF HasArchive THEN {[d EXCEPT !.tool["Aax"] = "torn"]} ELSE {}
DttRun(d) == {[x EXCEPT !.passed = Built("Aax", d)] : x \in Unpacked(FreshResults(d))}
DttPart(d) ==
  {d, FreshResults(d)} \cup UnpackedPart(FreshResults(d)) \cup Unpacked(FreshResults(d))
  \cup DttRun(d)

(* auval takes an AU by its codes from where the system finds one; only one*)
(* of the present name is looked for.                                      *)
ShadowsAu(d) == There("system", "Au", d) # Absent

Checked(T, d) ==
  CASE T = "Au"  -> {d}
    [] T = "Aax" -> DttRun(d)
    [] OTHER     -> ToolFull(T, d)

(* Slip: no ensure_no_system_au_conflict.                                  *)
ValidateFullSlip(T, d) ==
  IF Built(T, d) = Absent THEN {} ELSE Checked(T, d)
ValidateFull(T, d) ==
  IF Built(T, d) = Absent \/ (T = "Au" /\ ShadowsAu(d)) THEN {} ELSE Checked(T, d)
ValidatePart(T, d) ==
  IF Built(T, d) = Absent \/ T = "Au" THEN {d}
  ELSE IF T = "Aax" THEN DttPart(d) ELSE ToolPart(T, d)

(* launch: the standalone of the product is opened.                        *)
LaunchFull(T, d) ==
  IF d.bundle[T][Launched(req, since.meta).standalone] = Absent THEN {} ELSE {d}

(* validate_wrac_rules asks the CLAP bundle that was built for its plug-ins,*)
(* and the metadata the command began with for the rest.                   *)
Judged(d) == [Product[since.src] EXCEPT !.plugins = Product[Built("Clap", d)].plugins]
RulesFull(d) ==
  IF Built("Clap", d) > 0 /\ RulesPass(Judged(d), Resolve(req, since.meta) \cap PluginFormats)
    THEN {d} ELSE {}

Full(t, d) ==
  CASE t[1] = "scope"     -> IF HasDir(Destination(req.scope, t[2]), t[2]) THEN {d} ELSE {}
    [] t[1] = "clean"     -> {Cleaned(d, WracDir)}
    [] t[1] = "gui"       -> {GuiBuilt(d)}
    [] t[1] = "rust"      -> IF d.gui > 0 THEN {RustBuilt(t[2], d)} ELSE {}
    [] t[1] = "build"     -> BundleFull(t[2], d)
    [] t[1] = "configure" -> ConfigureFull(t[2], d)
    [] t[1] = "install"   -> InstallFull(t[2], Destination(req.scope, t[2]), d)
    [] t[1] = "install for validation" -> InstallFull(t[2], "user", d)
    [] t[1] = "rules"     -> RulesFull(d)
    [] t[1] = "validate"  -> ValidateFull(t[2], d)
    [] t[1] = "launch"    -> LaunchFull(t[2], d)
    [] t[1] = "uninstall" -> UninstallFull(t[2], UninstallScopes(req.scope, t[2]), d)

Part(t, d) ==
  CASE t[1] \in {"scope", "rules", "launch"} -> {d}
    [] t[1] = "clean"     -> {Cleaned(d, S) : S \in SUBSET WracDir}
    [] t[1] = "gui"       -> GuiPart(d)
    [] t[1] = "rust"      -> {d} \cup Full(t, d)
    [] t[1] = "build"     -> BundlePart(t[2], d)
    [] t[1] = "configure" -> ConfigurePart(t[2], d)
    [] t[1] = "install"   -> InstallPart(t[2], Destination(req.scope, t[2]), d)
    [] t[1] = "install for validation" -> InstallPart(t[2], "user", d)
    [] t[1] = "validate"  -> ValidatePart(t[2], d)
    [] t[1] = "uninstall" -> UninstallPart(t[2], UninstallScopes(req.scope, t[2]), d)

(***************************************************************************)
(* Execution (plan.rs execute_plan, lib.rs run)                            *)
(***************************************************************************)
Init ==
  /\ src = 1 /\ meta \in Metas
  /\ disk = [gui    |-> Absent, lib |-> [b \in {"default", "standalone"} |-> Absent],
             cache  |-> [w \in Wrappers |-> None], stamp |-> [w \in Wrappers |-> None],
             bundle |-> [T \in Targets |-> Nothing],
             installed |-> [s \in Scopes |-> [T \in PluginFormats |-> Nothing]],
             passed |-> Absent, tool |-> [T \in PluginFormats \ {"Au"} |-> "none"]]
  /\ req = None /\ since = [src |-> 0, meta |-> None]
  /\ status = << >> /\ phase = "none" /\ runs = 0 /\ faults = 0

Edit ==
  /\ src <= MaxEdits
  /\ src' = src + 1 /\ meta' \in Metas
  /\ UNCHANGED <<disk, req, since, status, phase, runs, faults>>

(* A dry run of a plan prints it; an uninstallation passes --dry-run on.   *)
Start(r) ==
  /\ phase # "run" /\ runs < MaxRuns
  /\ req' = r /\ since' = [src |-> src, meta |-> meta] /\ runs' = runs + 1
  /\ \/ Refused(r, meta) /\ phase' = "err" /\ status' = << >>
     \/ ~Refused(r, meta) /\ r.dry /\ r.cmd # "uninstall" /\ phase' = "ok" /\ status' = << >>
     \/ /\ ~Refused(r, meta) /\ (r.cmd = "uninstall" \/ ~r.dry)
        /\ phase' = "run" /\ status' = [t \in Nodes(r, meta) |-> "planned"]
  /\ UNCHANGED <<src, meta, disk, faults>>

(* ordered(): of the tasks whose dependencies are out of the way, the one  *)
(* added to the graph first.                                               *)
Planned == {t \in DOMAIN status : status[t] = "planned"}
Turn ==
  LET ready == {t \in Planned : DependsOn(t) \cap Planned = {}}
  IN IF phase # "run" THEN {}
     ELSE {t \in ready : \A u \in ready : NodeIndex[t] <= NodeIndex[u]}

(* Slip: a skipped dependency does not count.                              *)
IsCutOffSlip(t) == \E d \in DependsOn(t) : status[d] = "failed"
IsCutOff(t) == \E d \in DependsOn(t) : status[d] \in {"failed", "skipped"}

Skip(t) ==
  /\ t \in Turn /\ IsCutOff(t)
  /\ status' = [status EXCEPT ![t] = "skipped"]
  /\ UNCHANGED <<src, meta, disk, req, since, phase, runs, faults>>

Do(t) ==
  /\ t \in Turn /\ ~IsCutOff(t)
  /\ disk' \in Full(t, disk)
  /\ status' = [status EXCEPT ![t] = "ok"]
  /\ UNCHANGED <<src, meta, req, since, phase, runs, faults>>

Fail(t) ==
  /\ t \in Turn /\ ~IsCutOff(t)
  /\ \/ Full(t, disk) = {} /\ UNCHANGED faults
     \/ faults < MaxFaults /\ faults' = faults + 1
  /\ disk' \in Part(t, disk)
  /\ status' = [status EXCEPT ![t] = "failed"]
  /\ phase' = IF req.continues /\ req.cmd # "clean" THEN "run" ELSE "err"
  /\ UNCHANGED <<src, meta, req, since, runs>>

Finish ==
  /\ phase = "run" /\ Planned = {}
  /\ phase' = IF \E t \in DOMAIN status : status[t] = "failed" THEN "err" ELSE "ok"
  /\ UNCHANGED <<src, meta, disk, req, since, status, runs, faults>>

(* Ctrl-C, or the machine: between two tasks or inside one.                *)
Kill ==
  /\ phase = "run"
  /\ faults < MaxFaults /\ faults' = faults + 1
  /\ \/ disk' = disk
     \/ \E t \in Turn : ~IsCutOff(t) /\ disk' \in Part(t, disk)
  /\ phase' = "killed"
  /\ UNCHANGED <<src, meta, req, since, status, runs>>

Next ==
  \/ Edit \/ Finish \/ Kill
  \/ \E r \in Requests : Start(r)
  \/ \E t \in Turn : Skip(t) \/ Do(t) \/ Fail(t)

Spec == Init /\ [][Next]_vars

(***************************************************************************)
(* Properties                                                              *)
(***************************************************************************)
Is(t, s) == t \in DOMAIN status /\ status[t] = s
Ended == phase \in {"ok", "err"} /\ status # << >>

Failed == {t \in DOMAIN status : status[t] = "failed"}

(* What depends on the tasks S, at one remove and then at any.             *)
With(S) == S \cup {t \in DOMAIN status : DependsOn(t) \cap S # {}}
Fall[n \in 0..Len(AllTasks)] == IF n = 0 THEN Failed ELSE With(Fall[n - 1])

(* A failure costs exactly what needs the failed task: with                *)
(* --continue-on-error every task none of whose dependencies, however far  *)
(* down, failed has been executed and every other skipped; without it      *)
(* nothing runs after the first failure.  No task is lost in the order.    *)
Isolation ==
  LET fallen  == Fall[Len(AllTasks)]
      lost(t) == DependsOn(t) \cap fallen # {}
  IN Ended =>
       /\ (phase = "ok") = (Failed = {})
       /\ IF Failed = {} \/ req.continues
            THEN \A t \in DOMAIN status :
                   status[t] \in (IF lost(t) THEN {"skipped"} ELSE {"ok", "failed"})
            ELSE /\ Cardinality(Failed) = 1
                 /\ \A t \in DOMAIN status : lost(t) => status[t] = "planned"

(* cmake has been told of the present manifest's name for a format.        *)
Knows(T) == BundleName(since.meta) \in Writes(T, disk)

(* An installation that reports success put a whole bundle of this         *)
(* command's sources in place, and a launch opened one, whatever failed or *)
(* was killed before it; unless the cmake cache was left by a manifest of  *)
(* other names (a configuration that failed, and a stamp that says it is   *)
(* current): then an old bundle may do.                                    *)
InstallsThisBuild ==
  /\ \A T \in PluginFormats : Is(<<"install", T>>, "ok") /\ Knows(T) =>
       There(Destination(req.scope, T), T, disk) >= since.src
  /\ Is(<<"launch", "Standalone">>, "ok") =>
       \A n \in NamesOf("Standalone", since.meta) \cap Writes("Standalone", disk) :
         disk.bundle["Standalone"][n] >= since.src

(* A validation that passes has looked at this command's build, with the   *)
(* same exception: the rules at sources as new as the artifact's, auval at *)
(* the user's copy with none of its name in the system's folder, and the   *)
(* AAX results are of this bundle.                                         *)
ValidatesThisBuild ==
  \A T \in PluginFormats : Is(<<"validate", T>>, "ok") =>
    /\ Built("Clap", disk) >= since.src
    /\ RulesPass(Judged(disk), {T})
    /\ T = "Au" => There("system", T, disk) = Absent
    /\ T # "Au" => disk.tool[T] = "ready"
    /\ Knows(T) => CASE T = "Au"  -> There("user", T, disk) >= since.src
                      [] T = "Aax" -> disk.passed >= since.src
                      [] OTHER     -> Built(T, disk) >= since.src

(* uninstall --scope=all leaves no copy under the present manifest's name  *)
(* that an installation, of whatever scope, has made, the parts of an      *)
(* interrupted one included.                                               *)
UninstallLeavesNone ==
  phase = "ok" /\ req.cmd = "uninstall" /\ req.scope = "all" /\ ~req.dry =>
    \A T \in Resolve(req, since.meta), s \in Scopes : There(s, T, disk) = Absent

=============================================================================
