---------------------------- MODULE BuildProofs ----------------------------
(***************************************************************************)
(* Theorems about Build for every command line the CLI takes, every        *)
(* product, platform and number of commands, edits and faults: what a      *)
(* command that reports success has done, whatever failed or was killed    *)
(* before it and whatever lay on the disk.                                 *)
(***************************************************************************)
EXTENDS Build, FiniteSetTheorems, WellFoundedInduction, TLAPS

(***************************************************************************)
(* The tasks of a plan.                                                    *)
(***************************************************************************)
Libs == {"default", "standalone"}

\* Every task build_graph can add.
Tasks ==
  {<<"clean", "all">>, <<"gui", "all">>, <<"rules", "all">>, <<"launch", "Standalone">>,
   <<"install for validation", "Au">>}
  \cup Each("rust", Libs) \cup Each("configure", Wrappers) \cup Each("build", Targets)
  \cup Each("scope", PluginFormats) \cup Each("install", PluginFormats)
  \cup Each("validate", PluginFormats) \cup Each("uninstall", PluginFormats)

\* A command resolves to targets it takes.
LEMMA ResolveType ==
  ASSUME NEW r \in Requests, NEW m \in Metas
  PROVE  /\ Resolve(r, m) \subseteq Targets
         /\ r.cmd \in {"install", "uninstall", "validate"} => Resolve(r, m) \subseteq PluginFormats
         /\ r.cmd = "launch" => Resolve(r, m) = {"Standalone"}
<1>1. r.named \in Takes(r.cmd) /\ r.named \subseteq Targets
  BY BuildAssumption DEF CommandLines
<1>2. FormatsOf(Metadata[m]) \subseteq PluginFormats
  BY BuildAssumption DEF IsMetadata, FormatsOf
<1>3. QED
  BY <1>1, <1>2 DEF Takes, Resolve, Targets

\* A set of tasks that holds, with a task, what its artifacts are made from.
Closed(N) ==
  /\ \A T \in Targets : <<"build", T>> \in N =>
       /\ <<"rust", BuiltFrom(T)>> \in N
       /\ T # "Clap" => <<"configure", Wrapper(T)>> \in N
  /\ \A b \in Libs : <<"rust", b>> \in N => <<"gui", "all">> \in N
  /\ \A T \in PluginFormats : <<"install", T>> \in N => <<"build", T>> \in N
  /\ <<"launch", "Standalone">> \in N => <<"build", "Standalone">> \in N
  /\ <<"rules", "all">> \in N => <<"build", "Clap">> \in N
  /\ \A T \in PluginFormats : <<"validate", T>> \in N =>
       /\ <<"rules", "all">> \in N /\ <<"build", T>> \in N
       /\ T = "Au" => <<"install for validation", T>> \in N
  /\ <<"install for validation", "Au">> \in N => <<"build", "Au">> \in N

\* Tasks only one command has.
Belongs(N, cmd) ==
  /\ \A T \in PluginFormats :
       /\ <<"install", T>> \in N => cmd = "install"
       /\ <<"uninstall", T>> \in N => cmd = "uninstall"
       /\ <<"validate", T>> \in N => cmd = "validate"
  /\ <<"install for validation", "Au">> \in N \/ <<"rules", "all">> \in N => cmd = "validate"

LEMMA TaskForms ==
  /\ \A k \in {"clean", "gui", "rules"} : <<k, "all">> \in Tasks
  /\ \A b \in Libs : <<"rust", b>> \in Tasks
  /\ \A w \in Wrappers : <<"configure", w>> \in Tasks
  /\ \A T \in Targets : <<"build", T>> \in Tasks
  /\ \A k \in {"scope", "install", "validate", "uninstall"}, T \in PluginFormats : <<k, T>> \in Tasks
  /\ <<"launch", "Standalone">> \in Tasks /\ <<"install for validation", "Au">> \in Tasks
BY DEF Tasks, Each

\* What makes some targets lacks nothing they are made from.
LEMMA MakingProps ==
  ASSUME NEW built \in SUBSET Targets
  PROVE  Making(built) \subseteq Tasks /\ Closed(Making(built))
<1>1. {<<"build", T>> : T \in built} \subseteq Tasks
  BY TaskForms
<1>2. {<<"configure", Wrapper(T)>> : T \in built \ {"Clap"}} \subseteq Tasks
  <2>1. \A T \in built \ {"Clap"} : Wrapper(T) \in Wrappers
    BY DEF Wrapper, Wrappers, Targets, PluginFormats
  <2>2. QED
    BY <2>1, TaskForms
<1>3. {<<"rust", BuiltFrom(T)>> : T \in built} \subseteq Tasks
  <2>1. \A T \in built : BuiltFrom(T) \in Libs
    BY DEF BuiltFrom, Libs
  <2>2. QED
    BY <2>1, TaskForms
<1>4. {<<"gui", "all">> : T \in built} \subseteq Tasks
  BY TaskForms
<1>5. Closed(Making(built))
  BY DEF Closed, Making, Each
<1>6. QED
  BY <1>1, <1>2, <1>3, <1>4, <1>5 DEF Making, Each

\* Nor does the plan of any command.
LEMMA NodesProps ==
  ASSUME NEW r \in Requests, NEW m \in Metas
  PROVE  Nodes(r, m) \subseteq Tasks /\ Closed(Nodes(r, m)) /\ Belongs(Nodes(r, m), r.cmd)
<1> DEFINE ts == Resolve(r, m)
           N == Nodes(r, m)
<1>1. ts \subseteq Targets
  BY ResolveType
<1>2. r.cmd \in {"install", "uninstall", "validate"} => ts \subseteq PluginFormats
  BY ResolveType
<1>3. r.cmd = "launch" => ts = {"Standalone"}
  BY ResolveType
<1>4. Making(ts) \subseteq Tasks /\ Closed(Making(ts))
  BY <1>1, MakingProps
<1>5. "Clap" \in Targets
  BY DEF Targets, PluginFormats
<1>6. Making(ts \cup {"Clap"}) \subseteq Tasks /\ Closed(Making(ts \cup {"Clap"}))
  BY <1>1, <1>5, MakingProps
<1>7. r.cmd \in {"build", "install", "uninstall", "validate", "clean", "launch"}
  BY BuildAssumption DEF CommandLines
<1>8. CASE r.cmd = "build"
  <2>1. N = Making(ts) \cup (IF r.clean THEN {<<"clean", "all">>} ELSE {})
    BY <1>8 DEF Nodes
  <2> HIDE DEF ts, N
  <2>2. N \subseteq Tasks
    BY <1>4, <2>1, TaskForms
  <2>3. Closed(N)
    BY <1>4, <2>1 DEF Closed
  <2>4. Belongs(N, r.cmd)
    BY <2>1 DEF Belongs, Making, Each
  <2>5. QED
    BY <2>2, <2>3, <2>4 DEF N
<1>9. CASE r.cmd = "install"
  <2>1. N = Making(ts) \cup Each("scope", ts) \cup Each("install", ts)
    BY <1>9 DEF Nodes
  <2> HIDE DEF ts, N
  <2>2. N \subseteq Tasks
    BY <1>2, <1>4, <1>9, <2>1, TaskForms DEF Each
  <2>3. Closed(N)
    BY <1>4, <2>1 DEF Closed, Each, Making
  <2>4. Belongs(N, r.cmd)
    BY <1>9, <2>1 DEF Belongs, Making, Each
  <2>5. QED
    BY <2>2, <2>3, <2>4 DEF N
<1>10. CASE r.cmd = "uninstall"
  <2>1. N = Each("uninstall", ts)
    BY <1>10 DEF Nodes
  <2> HIDE DEF ts, N
  <2>2. N \subseteq Tasks
    BY <1>2, <1>10, <2>1, TaskForms DEF Each
  <2>3. Closed(N)
    BY <2>1 DEF Closed, Each
  <2>4. Belongs(N, r.cmd)
    BY <1>10, <2>1 DEF Belongs, Each
  <2>5. QED
    BY <2>2, <2>3, <2>4 DEF N
<1>11. CASE r.cmd = "validate"
  <2>1. N = Making(ts \cup {"Clap"}) \cup Each("validate", ts)
             \cup {<<"rules", "all">>} \cup Each("install for validation", ts \cap {"Au"})
    BY <1>11 DEF Nodes
  <2> HIDE DEF ts, N
  <2>2. N \subseteq Tasks
    BY <1>2, <1>6, <1>11, <2>1, TaskForms DEF Each
  <2>3. Closed(N)
    BY <1>6, <2>1 DEF Closed, Each, Making
  <2>4. Belongs(N, r.cmd)
    BY <1>11, <2>1 DEF Belongs, Making, Each
  <2>5. QED
    BY <2>2, <2>3, <2>4 DEF N
<1>12. CASE r.cmd = "clean"
  <2>1. N = {<<"clean", "all">>}
    BY <1>12 DEF Nodes
  <2> HIDE DEF ts, N
  <2>2. N \subseteq Tasks
    BY <2>1, TaskForms
  <2>3. Closed(N) /\ Belongs(N, r.cmd)
    BY <2>1 DEF Closed, Belongs
  <2>4. QED
    BY <2>2, <2>3 DEF N
<1>13. CASE r.cmd = "launch"
  <2>1. N = Making(ts) \cup Each("launch", ts)
    BY <1>13 DEF Nodes
  <2> HIDE DEF ts, N
  <2>2. N \subseteq Tasks
    BY <1>3, <1>4, <1>13, <2>1, TaskForms DEF Each
  <2>3. Closed(N)
    BY <1>3, <1>4, <1>13, <2>1 DEF Closed, Each, Making
  <2>4. Belongs(N, r.cmd)
    BY <1>13, <2>1 DEF Belongs, Making, Each
  <2>5. QED
    BY <2>2, <2>3, <2>4 DEF N
<1>14. QED
  BY <1>7, <1>8, <1>9, <1>10, <1>11, <1>12, <1>13

-----------------------------------------------------------------------------
(***************************************************************************)
(* The disk: what each change of it leaves alone.                          *)
(***************************************************************************)
Tools == {"none", "archive", "torn", "ready"}
Disks ==
  [gui : Int, lib : [Libs -> Int],
   cache : [Wrappers -> Metas \cup {None}], stamp : [Wrappers -> Metas \cup {None}],
   bundle : [Targets -> [Names -> Int]],
   installed : [Scopes -> [PluginFormats -> [Names -> Int]]],
   passed : Int, tool : [PluginFormats \ {"Au"} -> Tools]]

\* The names of a manifest are names.
LEMMA NameFacts ==
  ASSUME NEW m \in Metas
  PROVE  /\ BundleName(m) \in Names
         /\ \A T \in Targets : NamesOf(T, m) \subseteq Names
         /\ \A T \in PluginFormats : NamesOf(T, m) = {BundleName(m)}
<1>1. \A T \in Targets : NamesOf(T, m) \subseteq Names
  BY DEF Names
<1>2. \A T \in PluginFormats : NamesOf(T, m) = {BundleName(m)} /\ T \in Targets
  BY DEF NamesOf, PluginFormats, Targets
<1>3. "Clap" \in PluginFormats
  BY DEF PluginFormats
<1>4. QED
  BY <1>1, <1>2, <1>3

LEMMA NothingThere ==
  /\ Nothing \in [Names -> Int] /\ \A n \in Names : Nothing[n] = Absent
BY DEF Nothing, Absent

\* e is a disk that differs from d in some fields at most.
Fields == {"gui", "lib", "cache", "stamp", "bundle", "installed", "passed", "tool"}
Else(d, e, fields) == e \in Disks /\ \A f \in Fields \ fields : e[f] = d[f]

LEMMA PutGui ==
  ASSUME NEW d \in Disks, NEW x \in Int
  PROVE  LET e == [d EXCEPT !.gui = x]
         IN Else(d, e, {"gui"}) /\ e.gui = x
BY DEF Disks, Else, Fields

LEMMA PutLib ==
  ASSUME NEW d \in Disks, NEW x \in Int, NEW b \in Libs
  PROVE  LET e == [d EXCEPT !.lib[b] = x]
         IN Else(d, e, {"lib"}) /\ e.lib = [d.lib EXCEPT ![b] = x]
BY DEF Disks, Else, Fields

LEMMA PutBundle ==
  ASSUME NEW d \in Disks, NEW x \in [Names -> Int], NEW T \in Targets
  PROVE  LET e == [d EXCEPT !.bundle[T] = x]
         IN Else(d, e, {"bundle"}) /\ e.bundle = [d.bundle EXCEPT ![T] = x]
BY DEF Disks, Else, Fields

LEMMA PutPassed ==
  ASSUME NEW d \in Disks, NEW x \in Int
  PROVE  LET e == [d EXCEPT !.passed = x]
         IN Else(d, e, {"passed"}) /\ e.passed = x
BY DEF Disks, Else, Fields

LEMMA PutTool ==
  ASSUME NEW d \in Disks, NEW x \in Tools, NEW T \in PluginFormats \ {"Au"}
  PROVE  LET e == [d EXCEPT !.tool[T] = x]
         IN Else(d, e, {"tool"}) /\ e.tool = [d.tool EXCEPT ![T] = x]
BY DEF Disks, Else, Fields

LEMMA PutCache ==
  ASSUME NEW d \in Disks, NEW x \in Metas, NEW w \in Wrappers
  PROVE  /\ Else(d, [d EXCEPT !.cache[w] = x], {"cache"})
         /\ [d EXCEPT !.cache[w] = x].cache = [d.cache EXCEPT ![w] = x]
         /\ Else(d, [d EXCEPT !.stamp[w] = x], {"stamp"})
BY DEF Disks, Else, Fields

\* The default cargo directory is not under target/wrac: clean leaves its libraries.
LEMMA CleanedDisk ==
  ASSUME NEW d \in Disks, NEW S
  PROVE  LET e == Cleaned(d, S)
         IN /\ Else(d, e, {"lib", "cache", "stamp", "bundle", "passed"})
            /\ e.lib["default"] = d.lib["default"]
<1> DEFINE emptied(c) == IF "cmake" \in S THEN [w \in Wrappers |-> None] ELSE c
           l == [d.lib EXCEPT !["standalone"] = IF "cargo" \in S THEN Absent ELSE d.lib["standalone"]]
           b == [T \in Targets |->
                   IF (IF T = "Standalone" THEN "standalone" ELSE "plugins") \in S
                     THEN Nothing ELSE d.bundle[T]]
           x == IF "validation" \in S THEN Absent ELSE d.passed
<1>1. d.lib \in [Libs -> Int] /\ d.bundle \in [Targets -> [Names -> Int]] /\ d.passed \in Int
  BY DEF Disks
<1>2. d.cache \in [Wrappers -> Metas \cup {None}] /\ d.stamp \in [Wrappers -> Metas \cup {None}]
  BY DEF Disks
<1>3. /\ l \in [Libs -> Int] /\ l["default"] = d.lib["default"]
      /\ b \in [Targets -> [Names -> Int]] /\ x \in Int
  BY <1>1, NothingThere DEF Libs, Absent
<1>4. /\ emptied(d.cache) \in [Wrappers -> Metas \cup {None}]
      /\ emptied(d.stamp) \in [Wrappers -> Metas \cup {None}]
  BY <1>2
<1>5. Cleaned(d, S) = [gui |-> d.gui, lib |-> l, cache |-> emptied(d.cache),
                       stamp |-> emptied(d.stamp), bundle |-> b, installed |-> d.installed,
                       passed |-> x, tool |-> d.tool]
  <2>1. d = [gui |-> d.gui, lib |-> d.lib, cache |-> d.cache, stamp |-> d.stamp,
             bundle |-> d.bundle, installed |-> d.installed, passed |-> d.passed,
             tool |-> d.tool]
    BY DEF Disks
  <2>2. Cleaned(d, S) = [d EXCEPT !.lib = l, !.cache = emptied(d.cache), !.stamp = emptied(d.stamp),
                                  !.bundle = b, !.passed = x]
    BY DEF Cleaned
  <2> HIDE DEF emptied, l, b, x
  <2>3. QED
    BY <2>1, <2>2
<1> HIDE DEF emptied, l, b, x
<1>6. d.gui \in Int /\ d.installed \in [Scopes -> [PluginFormats -> [Names -> Int]]]
      /\ d.tool \in [PluginFormats \ {"Au"} -> Tools]
  BY DEF Disks
<1>7. Cleaned(d, S) \in Disks
  BY <1>3, <1>4, <1>5, <1>6 DEF Disks
<1>8. QED
  BY <1>3, <1>5, <1>7 DEF Else, Fields

\* Of what is installed, only T under the present name in the scopes S has changed, to x.
Elsewhere(T, S, x, d, e) ==
  \A s \in Scopes, U \in PluginFormats :
    e.installed[s][U] = IF s \in S /\ U = T THEN [d.installed[s][U] EXCEPT ![BundleName(since.meta)] = x]
                        ELSE d.installed[s][U]

LEMMA PutInstalled ==
  ASSUME NEW d \in Disks, NEW T \in PluginFormats, NEW S, NEW x \in Int, since.meta \in Metas
  PROVE  /\ Else(d, Installed(T, S, x, d), {"installed"})
         /\ Elsewhere(T, S, x, d, Installed(T, S, x, d))
         /\ \A s \in S \cap Scopes : There(s, T, Installed(T, S, x, d)) = x
<1> DEFINE n == BundleName(since.meta)
           i == [s \in Scopes |->
                   IF s \in S THEN [d.installed[s] EXCEPT ![T][n] = x] ELSE d.installed[s]]
<1>1. d.installed \in [Scopes -> [PluginFormats -> [Names -> Int]]]
  BY DEF Disks
<1>2. n \in Names
  BY NameFacts
<1>3. Installed(T, S, x, d) = [d EXCEPT !.installed = i]
  BY DEF Installed
<1> HIDE DEF n
<1>4. \A s \in Scopes : d.installed[s] \in [PluginFormats -> [Names -> Int]]
  BY <1>1
<1>5. ASSUME NEW f \in [PluginFormats -> [Names -> Int]]
      PROVE  /\ [f EXCEPT ![T][n] = x] \in [PluginFormats -> [Names -> Int]]
             /\ \A U \in PluginFormats :
                  [f EXCEPT ![T][n] = x][U] = IF U = T THEN [f[U] EXCEPT ![n] = x] ELSE f[U]
             /\ [f EXCEPT ![T][n] = x][T][n] = x
  <2>1. f[T] \in [Names -> Int] /\ [f[T] EXCEPT ![n] = x] \in [Names -> Int]
    OBVIOUS
  <2>2. [f[T] EXCEPT ![n] = x][n] = x
    BY <1>2, <2>1
  <2>3. QED
    BY <2>1, <2>2
<1>6. i \in [Scopes -> [PluginFormats -> [Names -> Int]]]
  BY <1>4, <1>5
<1>7. \A s \in Scopes, U \in PluginFormats :
        i[s][U] = IF s \in S /\ U = T THEN [d.installed[s][U] EXCEPT ![n] = x] ELSE d.installed[s][U]
  BY <1>4, <1>5
<1>8. \A s \in S \cap Scopes : i[s][T][n] = x
  BY <1>4, <1>5
<1> HIDE DEF i
<1>9. Else(d, [d EXCEPT !.installed = i], {"installed"})
  BY <1>6 DEF Else, Disks, Fields
<1>10. [d EXCEPT !.installed = i].installed = i
  BY DEF Disks
<1>11. QED
  BY <1>3, <1>7, <1>8, <1>9, <1>10 DEF Elsewhere, There, n

-----------------------------------------------------------------------------
(***************************************************************************)
(* A task writes what it makes and nothing else, whether it succeeds or    *)
(* not; clean excepted.  Nothing puts AAX into the user's directory, which *)
(* it does not have.                                                       *)
(***************************************************************************)
Frame(t, d, e) ==
  /\ e \in Disks
  /\ t # <<"gui", "all">> => e.gui = d.gui
  /\ \A b \in Libs : t \notin {<<"rust", b>>, <<"clean", "all">>} => e.lib[b] = d.lib[b]
  /\ \A T \in Targets : t \notin {<<"build", T>>, <<"clean", "all">>} => e.bundle[T] = d.bundle[T]
  /\ \A w \in Wrappers : t \notin {<<"configure", w>>, <<"clean", "all">>} => e.cache[w] = d.cache[w]
  /\ \A s \in Scopes, T \in PluginFormats :
       t \notin {<<"install", T>>, <<"install for validation", T>>, <<"uninstall", T>>} =>
         e.installed[s][T] = d.installed[s][T]
  /\ t \notin {<<"validate", "Aax">>, <<"clean", "all">>} => e.passed = d.passed
  /\ \A T \in PluginFormats \ {"Au"} : t # <<"validate", T>> => e.tool[T] = d.tool[T]
  /\ d.installed["user"]["Aax"] = Nothing => e.installed["user"]["Aax"] = Nothing

LEMMA SameFrame ==
  ASSUME NEW t, NEW d \in Disks
  PROVE  Frame(t, d, d)
BY DEF Frame

LEMMA FrameTwice ==
  ASSUME NEW t, NEW d, NEW e, NEW f, Frame(t, d, e), Frame(t, e, f)
  PROVE  Frame(t, d, f)
<1>1. \A T \in Targets : t \notin {<<"build", T>>, <<"clean", "all">>} => f.bundle[T] = d.bundle[T]
  BY Zenon DEF Frame
<1>2. \A b \in Libs : t \notin {<<"rust", b>>, <<"clean", "all">>} => f.lib[b] = d.lib[b]
  BY Zenon DEF Frame
<1>3. ASSUME NEW s \in Scopes, NEW T \in PluginFormats,
             t \notin {<<"install", T>>, <<"install for validation", T>>, <<"uninstall", T>>}
      PROVE  f.installed[s][T] = d.installed[s][T]
  <2>1. f.installed[s][T] = e.installed[s][T]
    BY <1>3, Zenon DEF Frame
  <2>2. e.installed[s][T] = d.installed[s][T]
    BY <1>3, Zenon DEF Frame
  <2>3. QED
    BY <2>1, <2>2
<1>4. \A T \in PluginFormats \ {"Au"} : t # <<"validate", T>> => f.tool[T] = d.tool[T]
  BY Zenon DEF Frame
<1>5. /\ f \in Disks
      /\ t # <<"gui", "all">> => f.gui = d.gui
      /\ t \notin {<<"validate", "Aax">>, <<"clean", "all">>} => f.passed = d.passed
      /\ d.installed["user"]["Aax"] = Nothing => f.installed["user"]["Aax"] = Nothing
  BY DEF Frame
<1>6. \A w \in Wrappers : t \notin {<<"configure", w>>, <<"clean", "all">>} => f.cache[w] = d.cache[w]
  BY Zenon DEF Frame
<1>7. QED
  BY <1>1, <1>2, <1>3, <1>4, <1>5, <1>6 DEF Frame

\* The frame of each change, and then of each task.
LEMMA CleanFrame ==
  ASSUME NEW d \in Disks, NEW S
  PROVE  Frame(<<"clean", "all">>, d, Cleaned(d, S))
BY CleanedDisk DEF Frame, Else, Fields, Libs

LEMMA GuiFrame ==
  ASSUME NEW d \in Disks, NEW x \in Int
  PROVE  Frame(<<"gui", "all">>, d, [d EXCEPT !.gui = x])
<1> DEFINE e == [d EXCEPT !.gui = x]
<1>1. Else(d, e, {"gui"})
  BY PutGui
<1> HIDE DEF e
<1>2. Frame(<<"gui", "all">>, d, e)
  BY <1>1 DEF Frame, Else, Fields
<1>3. QED
  BY <1>2 DEF e

LEMMA RustFrame ==
  ASSUME NEW d \in Disks, NEW x \in Int, NEW b \in Libs
  PROVE  Frame(<<"rust", b>>, d, [d EXCEPT !.lib[b] = x])
<1>1. \A c \in Libs : c # b => [d.lib EXCEPT ![b] = x][c] = d.lib[c]
  BY DEF Disks
<1>2. QED
  BY <1>1, PutLib DEF Frame, Else, Fields

LEMMA BuildFrame ==
  ASSUME NEW d \in Disks, NEW x \in [Names -> Int], NEW T \in Targets
  PROVE  Frame(<<"build", T>>, d, [d EXCEPT !.bundle[T] = x])
<1>1. \A U \in Targets : U # T => [d.bundle EXCEPT ![T] = x][U] = d.bundle[U]
  BY DEF Disks
<1>2. QED
  BY <1>1, PutBundle DEF Frame, Else, Fields

LEMMA PutFrame ==
  ASSUME NEW d \in Disks, NEW T \in Targets, NEW N, NEW v \in Int
  PROVE  Put(T, N, v, d) \in Disks /\ Frame(<<"build", T>>, d, Put(T, N, v, d))
<1> DEFINE x == [n \in Names |-> IF n \in N THEN v ELSE d.bundle[T][n]]
<1>1. x \in [Names -> Int] /\ Put(T, N, v, d) = [d EXCEPT !.bundle[T] = x]
  BY DEF Put, Disks
<1> HIDE DEF x
<1>2. Frame(<<"build", T>>, d, [d EXCEPT !.bundle[T] = x])
  BY <1>1, BuildFrame
<1>3. QED
  BY <1>1, <1>2 DEF Frame

LEMMA ConfigureFrame ==
  ASSUME NEW d \in Disks, NEW x \in Metas, NEW w \in Wrappers
  PROVE  /\ Frame(<<"configure", w>>, d, [d EXCEPT !.cache[w] = x])
         /\ Frame(<<"configure", w>>, d, [[d EXCEPT !.cache[w] = x] EXCEPT !.stamp[w] = x])
<1> DEFINE e == [d EXCEPT !.cache[w] = x]
           f == [e EXCEPT !.stamp[w] = x]
<1>1. Else(d, e, {"cache"}) /\ e.cache = [d.cache EXCEPT ![w] = x]
  BY PutCache
<1> HIDE DEF e
<1>2. e \in Disks
  BY <1>1 DEF Else
<1>3. Else(e, f, {"stamp"})
  BY <1>2, PutCache
<1> HIDE DEF f
<1>a. \A v \in Wrappers : v # w => e.cache[v] = d.cache[v]
  BY <1>1 DEF Disks
<1>4. Frame(<<"configure", w>>, d, e) /\ Frame(<<"configure", w>>, e, f)
  BY <1>1, <1>3, <1>a DEF Frame, Else, Fields
<1>5. Frame(<<"configure", w>>, d, f)
  BY <1>4, FrameTwice
<1>6. QED
  BY <1>4, <1>5 DEF e, f

LEMMA InstalledFrame ==
  ASSUME NEW d \in Disks, NEW x \in Int, NEW T \in PluginFormats, NEW S,
         T = "Aax" => "user" \notin S, since.meta \in Metas,
         NEW k \in {"install", "install for validation", "uninstall"}
  PROVE  Frame(<<k, T>>, d, Installed(T, S, x, d))
<1> DEFINE e == Installed(T, S, x, d)
<1>1. "user" \in Scopes /\ "Aax" \in PluginFormats
  BY DEF Scopes, PluginFormats
<1>2. Else(d, e, {"installed"}) /\ Elsewhere(T, S, x, d, e)
  BY PutInstalled
<1> HIDE DEF e
<1>3. Frame(<<k, T>>, d, e)
  BY <1>1, <1>2 DEF Frame, Else, Fields, Elsewhere
<1>4. QED
  BY <1>3 DEF e

LEMMA ToolFrame ==
  ASSUME NEW d \in Disks, NEW x \in Tools, NEW T \in PluginFormats \ {"Au"}
  PROVE  Frame(<<"validate", T>>, d, [d EXCEPT !.tool[T] = x])
<1>1. \A U \in PluginFormats \ {"Au"} : U # T => [d.tool EXCEPT ![T] = x][U] = d.tool[U]
  BY DEF Disks
<1>2. QED
  BY <1>1, PutTool DEF Frame, Else, Fields

LEMMA PassedFrame ==
  ASSUME NEW d \in Disks, NEW x \in Int
  PROVE  Frame(<<"validate", "Aax">>, d, [d EXCEPT !.passed = x])
<1> DEFINE e == [d EXCEPT !.passed = x]
<1>1. Else(d, e, {"passed"})
  BY PutPassed
<1> HIDE DEF e
<1>2. Frame(<<"validate", "Aax">>, d, e)
  BY <1>1 DEF Frame, Else, Fields
<1>3. QED
  BY <1>2 DEF e

\* Full and Part, kind by kind.
LEMMA Works ==
  ASSUME NEW d, NEW x
  PROVE  /\ Full(<<"clean", "all">>, d) = {Cleaned(d, WracDir)}
         /\ Part(<<"clean", "all">>, d) = {Cleaned(d, S) : S \in SUBSET WracDir}
         /\ Full(<<"gui", "all">>, d) = {GuiBuilt(d)}
         /\ Part(<<"gui", "all">>, d) = GuiPart(d)
         /\ Full(<<"rules", "all">>, d) = RulesFull(d)
         /\ Part(<<"rules", "all">>, d) = {d}
         /\ Full(<<"rust", x>>, d) = (IF d.gui > 0 THEN {RustBuilt(x, d)} ELSE {})
         /\ Part(<<"rust", x>>, d) = {d} \cup (IF d.gui > 0 THEN {RustBuilt(x, d)} ELSE {})
         /\ Full(<<"configure", x>>, d) = ConfigureFull(x, d)
         /\ Part(<<"configure", x>>, d) = ConfigurePart(x, d)
         /\ Full(<<"build", x>>, d) = BundleFull(x, d)
         /\ Part(<<"build", x>>, d) = BundlePart(x, d)
         /\ Full(<<"scope", x>>, d) = (IF HasDir(Destination(req.scope, x), x) THEN {d} ELSE {})
         /\ Part(<<"scope", x>>, d) = {d}
         /\ Full(<<"install", x>>, d) = InstallFull(x, Destination(req.scope, x), d)
         /\ Part(<<"install", x>>, d) = InstallPart(x, Destination(req.scope, x), d)
         /\ Full(<<"install for validation", x>>, d) = InstallFull(x, "user", d)
         /\ Part(<<"install for validation", x>>, d) = InstallPart(x, "user", d)
         /\ Full(<<"validate", x>>, d) = ValidateFull(x, d)
         /\ Part(<<"validate", x>>, d) = ValidatePart(x, d)
         /\ Full(<<"launch", x>>, d) = LaunchFull(x, d)
         /\ Part(<<"launch", x>>, d) = {d}
         /\ Full(<<"uninstall", x>>, d) = UninstallFull(x, UninstallScopes(req.scope, x), d)
         /\ Part(<<"uninstall", x>>, d) = UninstallPart(x, UninstallScopes(req.scope, x), d)
BY DEF Full, Part

LEMMA RequestType ==
  ASSUME NEW r \in Requests
  PROVE  /\ r.scope \in TakesScope(r.cmd) /\ r.named \in Takes(r.cmd)
         /\ r.cmd \in {"build", "install", "uninstall", "validate", "clean", "launch"}
         /\ r.dry \in BOOLEAN /\ r.clean \in BOOLEAN
         /\ r.continues \in BOOLEAN /\ (r.continues => r.cmd # "clean")
BY BuildAssumption DEF CommandLines

LEMMA Marks == Absent \in Int /\ Torn \in Int
BY DEF Absent, Torn

LEMMA BuiltType ==
  ASSUME NEW d \in Disks, NEW T \in PluginFormats, since.meta \in Metas
  PROVE  Built(T, d) \in Int
<1>1. T \in Targets /\ BundleName(since.meta) \in Names
  BY NameFacts DEF Targets
<1>2. QED
  BY <1>1 DEF Built, Disks

LEMMA InstallFrame ==
  ASSUME NEW d \in Disks, NEW T \in PluginFormats, NEW s \in Scopes,
         NEW e \in InstallFull(T, s, d) \cup InstallPart(T, s, d), since.meta \in Metas,
         NEW k \in {"install", "install for validation"}
  PROVE  Frame(<<k, T>>, d, e)
<1>1. CASE e = d
  BY <1>1, SameFrame
<1>2. CASE e # d
  <2>1. HasDir(s, T) /\ \E x \in {Absent, Torn, Built(T, d)} : e = Installed(T, {s}, x, d)
    BY <1>2 DEF InstallFull, InstallPart
  <2>2. PICK x \in {Absent, Torn, Built(T, d)} : e = Installed(T, {s}, x, d)
    BY <2>1
  <2>3. Built(T, d) \in Int
    BY BuiltType
  <2>4. Absent \in Int /\ Torn \in Int
    BY Marks
  <2>5. T = "Aax" => "user" \notin {s}
    BY <2>1 DEF HasDir
  <2>6. x \in Int
    BY <2>2, <2>3, <2>4
  <2>7. QED
    BY <2>2, <2>5, <2>6, InstalledFrame
<1>3. QED
  BY <1>1, <1>2

LEMMA UninstallFrame ==
  ASSUME NEW d \in Disks, NEW T \in PluginFormats, NEW S \in SUBSET Scopes,
         NEW e \in UninstallFull(T, S, d) \cup UninstallPart(T, S, d), since.meta \in Metas
  PROVE  Frame(<<"uninstall", T>>, d, e)
<1>1. Absent \in Int /\ Torn \in Int
  BY DEF Absent, Torn
<1>2. CASE e = d
  BY <1>2, SameFrame
<1>3. CASE e # d
  <2>1. T = "Aax" => "user" \notin S
    BY <1>3 DEF UninstallFull, UninstallPart, HasDir
  <2>2. \A R \in SUBSET S : Frame(<<"uninstall", T>>, d, Installed(T, R, Absent, d))
    BY <1>1, <2>1, InstalledFrame
  <2>3. CASE \E R \in SUBSET S : e = Installed(T, R, Absent, d)
    BY <2>2, <2>3
  <2>4. CASE \E s \in S, R \in SUBSET S : e = Installed(T, {s}, Torn, Installed(T, R, Absent, d))
    <3>1. PICK s \in S, R \in SUBSET S : e = Installed(T, {s}, Torn, Installed(T, R, Absent, d))
      BY <2>4
    <3> DEFINE f == Installed(T, R, Absent, d)
    <3>2. Frame(<<"uninstall", T>>, d, f) /\ f \in Disks
      BY <2>2 DEF Frame
    <3> HIDE DEF f
    <3>3. T = "Aax" => "user" \notin {s}
      BY <2>1
    <3>4. Frame(<<"uninstall", T>>, f, Installed(T, {s}, Torn, f))
      BY <1>1, <3>2, <3>3, InstalledFrame
    <3>5. e = Installed(T, {s}, Torn, f)
      BY <3>1 DEF f
    <3>6. QED
      BY <3>2, <3>4, <3>5, FrameTwice
  <2>5. QED
    BY <1>3, <2>3, <2>4 DEF UninstallFull, UninstallPart
<1>4. QED
  BY <1>2, <1>3

LEMMA DttFrame ==
  ASSUME NEW d \in Disks, NEW e \in DttRun(d) \cup DttPart(d), since.meta \in Metas
  PROVE  Frame(<<"validate", "Aax">>, d, e)
<1> DEFINE f == FreshResults(d)
<1>1. Absent \in Int /\ Built("Aax", d) \in Int
  BY Marks, BuiltType DEF PluginFormats
<1>2. Frame(<<"validate", "Aax">>, d, f)
  BY <1>1, PassedFrame DEF FreshResults
<1>3. f \in Disks
  BY <1>2 DEF Frame
<1>4. ASSUME NEW x \in {"ready", "torn"}
      PROVE  Frame(<<"validate", "Aax">>, d, [f EXCEPT !.tool["Aax"] = x])
  <2>1. Frame(<<"validate", "Aax">>, f, [f EXCEPT !.tool["Aax"] = x])
    BY <1>3, ToolFrame DEF PluginFormats, Tools
  <2>2. QED
    BY <1>2, <2>1, FrameTwice
<1> HIDE DEF f
<1>5. CASE e = d
  BY <1>5, SameFrame
<1>6. CASE e = f
  BY <1>2, <1>6
<1>7. CASE e \in Unpacked(f) \cup UnpackedPart(f)
  BY <1>4, <1>7 DEF Unpacked, UnpackedPart
<1>8. CASE e \in DttRun(d)
  <2>1. PICK y \in Unpacked(f) : e = [y EXCEPT !.passed = Built("Aax", d)]
    BY <1>8 DEF DttRun, f
  <2>2. y = [f EXCEPT !.tool["Aax"] = "ready"]
    BY <2>1 DEF Unpacked
  <2>3. Frame(<<"validate", "Aax">>, d, y)
    BY <1>4, <2>2
  <2>4. y \in Disks
    BY <2>3 DEF Frame
  <2>5. Frame(<<"validate", "Aax">>, y, e)
    BY <1>1, <2>1, <2>4, PassedFrame
  <2>6. QED
    BY <2>3, <2>5, FrameTwice
<1>9. QED
  BY <1>5, <1>6, <1>7, <1>8 DEF DttPart, f

LEMMA ValidateFrame ==
  ASSUME NEW d \in Disks, NEW T \in PluginFormats,
         NEW e \in ValidateFull(T, d) \cup ValidatePart(T, d), since.meta \in Metas
  PROVE  Frame(<<"validate", T>>, d, e)
<1>1. CASE e = d
  BY <1>1, SameFrame
<1>2. CASE T = "Aax" /\ e # d
  BY <1>2, DttFrame DEF ValidateFull, ValidatePart, Checked
<1>3. CASE T \in {"Clap", "Vst3"} /\ e # d
  <2>1. e \in ToolFull(T, d) \cup ToolPart(T, d)
    BY <1>3 DEF ValidateFull, ValidatePart, Checked
  <2>2. PICK x \in {"archive", "torn", "ready"} : e = [d EXCEPT !.tool[T] = x]
    BY <1>3, <2>1 DEF ToolFull, ToolPart
  <2>3. x \in Tools
    BY <2>2 DEF Tools
  <2>4. QED
    BY <1>3, <2>2, <2>3, ToolFrame
<1>4. CASE T = "Au"
  <2>1. e = d
    BY <1>4 DEF ValidateFull, ValidatePart, Checked
  <2>2. QED
    BY <2>1, SameFrame
<1>5. QED
  BY <1>1, <1>2, <1>3, <1>4 DEF PluginFormats

LEMMA MakeFrame ==
  ASSUME NEW d \in Disks, src \in Nat, since.meta \in Metas, NEW e
  PROVE  /\ e \in {GuiBuilt(d)} \cup GuiPart(d) => Frame(<<"gui", "all">>, d, e)
         /\ \A b \in Libs : e = RustBuilt(b, d) => Frame(<<"rust", b>>, d, e)
         /\ \A T \in Targets : e \in BundleFull(T, d) \cup BundlePart(T, d) => Frame(<<"build", T>>, d, e)
         /\ \A w \in Wrappers : e \in ConfigureFull(w, d) \cup ConfigurePart(w, d) =>
              Frame(<<"configure", w>>, d, e)
<1>1. Absent \in Int /\ Torn \in Int /\ src \in Int
  BY DEF Absent, Torn
<1>2. e \in {GuiBuilt(d)} \cup GuiPart(d) => Frame(<<"gui", "all">>, d, e)
  BY <1>1, SameFrame, GuiFrame DEF GuiPart, GuiBuilt
<1>3. ASSUME NEW b \in Libs, e = RustBuilt(b, d)
      PROVE  Frame(<<"rust", b>>, d, e)
  <2>1. Older(src, d.gui) \in Int
    BY DEF Older, Disks
  <2>2. QED
    BY <1>3, <2>1, RustFrame DEF RustBuilt
<1>4. ASSUME NEW T \in Targets, e \in BundleFull(T, d) \cup BundlePart(T, d)
      PROVE  Frame(<<"build", T>>, d, e)
  <2>1. d.lib[BuiltFrom(T)] \in Int
    BY DEF BuiltFrom, Disks, Libs
  <2>2. ASSUME NEW c \in Disks, NEW N, NEW v \in Int
        PROVE  Put(T, N, v, c) \in Disks /\ Frame(<<"build", T>>, c, Put(T, N, v, c))
    BY <2>2, PutFrame
  <2>3. CASE \E N, v : v \in {Absent, d.lib[BuiltFrom(T)]} /\ e = Put(T, N, v, d)
    BY <1>1, <2>1, <2>2, <2>3
  <2>4. CASE \E M, N : e = Put(T, M, Torn, Put(T, N, d.lib[BuiltFrom(T)], d))
    <3>1. PICK M, N : e = Put(T, M, Torn, Put(T, N, d.lib[BuiltFrom(T)], d))
      BY <2>4
    <3> DEFINE c == Put(T, N, d.lib[BuiltFrom(T)], d)
    <3>2. c \in Disks /\ Frame(<<"build", T>>, d, c)
      BY <2>1, <2>2
    <3> HIDE DEF c
    <3>3. Frame(<<"build", T>>, c, Put(T, M, Torn, c))
      BY <1>1, <2>2, <3>2
    <3>4. QED
      BY <3>1, <3>2, <3>3, FrameTwice DEF c
  <2>5. CASE e = d
    BY <2>5, SameFrame
  <2>6. e \in BundleFull(T, d) => e = Put(T, Writes(T, d), d.lib[BuiltFrom(T)], d)
    BY DEF BundleFull, Bundled
  <2>7. QED
    BY <1>4, <2>3, <2>4, <2>5, <2>6 DEF BundlePart
<1>5. ASSUME NEW w \in Wrappers, e \in ConfigureFull(w, d) \cup ConfigurePart(w, d)
      PROVE  Frame(<<"configure", w>>, d, e)
  <2>1. e \in {d, Cached(w, d), [Cached(w, d) EXCEPT !.stamp[w] = since.meta]}
    BY <1>5 DEF ConfigureFull, ConfigurePart
  <2>2. Frame(<<"configure", w>>, d, Cached(w, d))
    BY ConfigureFrame DEF Cached
  <2>3. Frame(<<"configure", w>>, d, [Cached(w, d) EXCEPT !.stamp[w] = since.meta])
    BY ConfigureFrame DEF Cached
  <2>4. QED
    BY <2>1, <2>2, <2>3, SameFrame
<1>6. QED
  BY <1>2, <1>3, <1>4, <1>5

\* A task is of one of the kinds.
LEMMA TaskCases ==
  ASSUME NEW t \in Tasks
  PROVE  \/ t \in {<<"clean", "all">>, <<"gui", "all">>, <<"rules", "all">>,
                   <<"launch", "Standalone">>, <<"install for validation", "Au">>}
         \/ \E b \in Libs : t = <<"rust", b>>
         \/ \E w \in Wrappers : t = <<"configure", w>>
         \/ \E T \in Targets : t = <<"build", T>>
         \/ \E T \in PluginFormats :
              t \in {<<"scope", T>>, <<"install", T>>, <<"validate", T>>, <<"uninstall", T>>}
BY DEF Tasks, Each

\* No task reaches beyond its frame, however it ends.
LEMMA WorkFrame ==
  ASSUME NEW t \in Tasks, Belongs({t}, req.cmd), req \in Requests,
         src \in Nat, since.meta \in Metas,
         NEW d \in Disks, NEW e \in Full(t, d) \cup Part(t, d)
  PROVE  Frame(t, d, e)
<1>1. CASE t = <<"clean", "all">>
  <2>1. e \in {Cleaned(d, WracDir)} \cup {Cleaned(d, S) : S \in SUBSET WracDir}
    BY <1>1 DEF Full, Part
  <2>2. \E S : e = Cleaned(d, S)
    BY <2>1
  <2>3. QED
    BY <1>1, <2>2, CleanFrame
<1>2. CASE t = <<"gui", "all">>
  BY <1>2, Works, MakeFrame
<1>3. CASE t = <<"rules", "all">>
  <2>1. Full(t, d) = RulesFull(d) /\ Part(t, d) = {d}
    BY <1>3, Works
  <2>2. e = d
    BY <2>1 DEF RulesFull
  <2>3. QED
    BY <2>2, SameFrame
<1>4. CASE t = <<"launch", "Standalone">>
  <2>1. Full(t, d) = LaunchFull("Standalone", d) /\ Part(t, d) = {d}
    BY <1>4, Works
  <2>2. e = d
    BY <2>1 DEF LaunchFull
  <2>3. QED
    BY <2>2, SameFrame
<1>5. CASE t = <<"install for validation", "Au">>
  <2>1. e \in InstallFull("Au", "user", d) \cup InstallPart("Au", "user", d)
    BY <1>5, Works
  <2>2. "user" \in Scopes /\ "Au" \in PluginFormats
    BY DEF Scopes, PluginFormats
  <2>3. QED
    BY <1>5, <2>1, <2>2, InstallFrame
<1>6. ASSUME NEW b \in Libs, t = <<"rust", b>>
      PROVE  Frame(t, d, e)
  <2>1. /\ Full(t, d) = (IF d.gui > 0 THEN {RustBuilt(b, d)} ELSE {})
        /\ Part(t, d) = {d} \cup (IF d.gui > 0 THEN {RustBuilt(b, d)} ELSE {})
    BY <1>6, Works
  <2>2. e = d \/ e = RustBuilt(b, d)
    BY <2>1
  <2>3. QED
    BY <1>6, <2>2, MakeFrame, SameFrame
<1>7. ASSUME NEW w \in Wrappers, t = <<"configure", w>>
      PROVE  Frame(t, d, e)
  <2>1. e \in ConfigureFull(w, d) \cup ConfigurePart(w, d)
    BY <1>7, Works
  <2>2. QED
    BY <1>7, <2>1, MakeFrame
<1>8. ASSUME NEW T \in Targets, t = <<"build", T>>
      PROVE  Frame(t, d, e)
  <2>1. e \in BundleFull(T, d) \cup BundlePart(T, d)
    BY <1>8, Works
  <2>2. QED
    BY <1>8, <2>1, MakeFrame
<1>9. ASSUME NEW T \in PluginFormats, t = <<"scope", T>>
      PROVE  Frame(t, d, e)
  <2>1. /\ Full(t, d) = (IF HasDir(Destination(req.scope, T), T) THEN {d} ELSE {})
        /\ Part(t, d) = {d}
    BY <1>9, Works
  <2>2. e = d
    BY <2>1
  <2>3. QED
    BY <2>2, SameFrame
<1>10. ASSUME NEW T \in PluginFormats, t = <<"install", T>>
       PROVE  Frame(t, d, e)
  <2>1. req.cmd = "install"
    BY <1>10 DEF Belongs
  <2>2. Destination(req.scope, T) \in Scopes
    BY <2>1, RequestType DEF Destination, TakesScope, Scopes
  <2>3. e \in InstallFull(T, Destination(req.scope, T), d) \cup InstallPart(T, Destination(req.scope, T), d)
    BY <1>10, Works
  <2>4. QED
    BY <1>10, <2>2, <2>3, InstallFrame
<1>11. ASSUME NEW T \in PluginFormats, t = <<"validate", T>>
       PROVE  Frame(t, d, e)
  <2>1. e \in ValidateFull(T, d) \cup ValidatePart(T, d)
    BY <1>11, Works
  <2>2. QED
    BY <1>11, <2>1, ValidateFrame
<1>12. ASSUME NEW T \in PluginFormats, t = <<"uninstall", T>>
       PROVE  Frame(t, d, e)
  <2>1. req.cmd = "uninstall"
    BY <1>12 DEF Belongs
  <2>2. UninstallScopes(req.scope, T) \in SUBSET Scopes
    BY <2>1, RequestType DEF UninstallScopes, TakesScope, Scopes
  <2>3. e \in UninstallFull(T, UninstallScopes(req.scope, T), d)
           \cup UninstallPart(T, UninstallScopes(req.scope, T), d)
    BY <1>12, Works
  <2>4. QED
    BY <1>12, <2>2, <2>3, UninstallFrame
<1>13. QED
  BY <1>1, <1>2, <1>3, <1>4, <1>5, <1>6, <1>7, <1>8, <1>9, <1>10, <1>11, <1>12, TaskCases

-----------------------------------------------------------------------------
(***************************************************************************)
(* The inductive invariant.  The order is what makes the rest inductive: a *)
(* task that writes what another has made runs before it, since a plan is  *)
(* closed under what its tasks are made from.                              *)
(***************************************************************************)
OkIn(st, t) == t \in DOMAIN st /\ st[t] = "ok"

\* A task succeeds after all those it waits for.
Ordered(st) ==
  \A t \in DOMAIN st : st[t] = "ok" => \A u \in Needs[t] \cap DOMAIN st : st[u] = "ok"

\* cmake knows the present name of a format.
Told(T, d) == BundleName(since.meta) \in Writes(T, d)

\* What a task that succeeded has put on the disk, of this command's sources.
Achieved(t, d) ==
  /\ t = <<"gui", "all">> => d.gui >= since.src
  /\ \A b \in Libs : t = <<"rust", b>> => d.lib[b] >= since.src
  /\ \A T \in Targets : t = <<"build", T>> =>
       \A n \in NamesOf(T, since.meta) \cap Writes(T, d) : d.bundle[T][n] >= since.src
  /\ \A T \in PluginFormats : t = <<"install", T>> /\ Told(T, d) =>
       There(Destination(req.scope, T), T, d) >= since.src
  /\ t = <<"install for validation", "Au">> /\ Told("Au", d) =>
       There("user", "Au", d) >= since.src
  /\ t = <<"rules", "all">> =>
       RulesPass(Judged(d), Resolve(req, since.meta) \cap PluginFormats)
  /\ \A T \in PluginFormats : t = <<"validate", T>> =>
       /\ T = "Au" => There("system", "Au", d) = Absent
       /\ T # "Au" => d.tool[T] = "ready"
       /\ T = "Aax" /\ Told("Aax", d) => d.passed >= since.src
  /\ \A T \in PluginFormats : t = <<"uninstall", T>> /\ ~req.dry =>
       \A s \in UninstallScopes(req.scope, T) : There(s, T, d) = Absent

Statuses == {"planned", "ok", "failed", "skipped"}

TypeOK ==
  /\ src \in Nat /\ disk \in Disks
  /\ since.src \in Nat /\ since.src <= src
  /\ meta \in Metas /\ src > 0
  /\ status \in [DOMAIN status -> Statuses]
  /\ phase \in {"none", "run", "ok", "err", "killed"}
  /\ phase # "none" => req \in Requests /\ since.meta \in Metas /\ since.src > 0

\* The statuses are of this command's plan, and of all of it while it runs.
PlanKept ==
  /\ status = << >> \/ DOMAIN status = Nodes(req, since.meta)
  /\ phase = "none" => status = << >>
  /\ phase = "run" \/ (phase = "ok" /\ req.cmd = "uninstall") =>
       DOMAIN status = Nodes(req, since.meta)

\* A task is skipped for a failed one only, and success is everybody's.
Blamed ==
  /\ (\E t \in DOMAIN status : status[t] = "skipped") => \E t \in DOMAIN status : status[t] = "failed"
  /\ phase = "ok" => \A t \in DOMAIN status : status[t] = "ok"

\* What a task has achieved stays so until the command's last task.
Kept == \A t \in DOMAIN status : status[t] = "ok" => Achieved(t, disk)

\* AAX has no user's directory.
NoUsersAax == disk.installed["user"]["Aax"] = Nothing

IInv == TypeOK /\ PlanKept /\ Ordered(status) /\ Blamed /\ Kept /\ NoUsersAax

-----------------------------------------------------------------------------
(***************************************************************************)
(* The graph: the dependencies the proofs rest on.                         *)
(***************************************************************************)
\* AllTasks leaves none of them out.
LEMMA Numbered == Tasks \subseteq ToSet(AllTasks)
<1>1. 1 \in DOMAIN AllTasks /\ AllTasks[1] = <<"scope", "Clap">>
  BY DEF AllTasks
<1>2. 2 \in DOMAIN AllTasks /\ AllTasks[2] = <<"scope", "Vst3">>
  BY DEF AllTasks
<1>3. 3 \in DOMAIN AllTasks /\ AllTasks[3] = <<"scope", "Au">>
  BY DEF AllTasks
<1>4. 4 \in DOMAIN AllTasks /\ AllTasks[4] = <<"scope", "Aax">>
  BY DEF AllTasks
<1>5. 5 \in DOMAIN AllTasks /\ AllTasks[5] = <<"clean", "all">>
  BY DEF AllTasks
<1>6. 6 \in DOMAIN AllTasks /\ AllTasks[6] = <<"gui", "all">>
  BY DEF AllTasks
<1>7. 7 \in DOMAIN AllTasks /\ AllTasks[7] = <<"rust", "default">>
  BY DEF AllTasks
<1>8. 8 \in DOMAIN AllTasks /\ AllTasks[8] = <<"rust", "standalone">>
  BY DEF AllTasks
<1>9. 9 \in DOMAIN AllTasks /\ AllTasks[9] = <<"build", "Clap">>
  BY DEF AllTasks
<1>10. 10 \in DOMAIN AllTasks /\ AllTasks[10] = <<"configure", "plugins">>
  BY DEF AllTasks
<1>11. 11 \in DOMAIN AllTasks /\ AllTasks[11] = <<"build", "Vst3">>
  BY DEF AllTasks
<1>12. 12 \in DOMAIN AllTasks /\ AllTasks[12] = <<"build", "Au">>
  BY DEF AllTasks
<1>13. 13 \in DOMAIN AllTasks /\ AllTasks[13] = <<"configure", "aax">>
  BY DEF AllTasks
<1>14. 14 \in DOMAIN AllTasks /\ AllTasks[14] = <<"build", "Aax">>
  BY DEF AllTasks
<1>15. 15 \in DOMAIN AllTasks /\ AllTasks[15] = <<"configure", "standalone">>
  BY DEF AllTasks
<1>16. 16 \in DOMAIN AllTasks /\ AllTasks[16] = <<"build", "Standalone">>
  BY DEF AllTasks
<1>17. 17 \in DOMAIN AllTasks /\ AllTasks[17] = <<"install", "Clap">>
  BY DEF AllTasks
<1>18. 18 \in DOMAIN AllTasks /\ AllTasks[18] = <<"install", "Vst3">>
  BY DEF AllTasks
<1>19. 19 \in DOMAIN AllTasks /\ AllTasks[19] = <<"install", "Au">>
  BY DEF AllTasks
<1>20. 20 \in DOMAIN AllTasks /\ AllTasks[20] = <<"install", "Aax">>
  BY DEF AllTasks
<1>21. 21 \in DOMAIN AllTasks /\ AllTasks[21] = <<"rules", "all">>
  BY DEF AllTasks
<1>22. 22 \in DOMAIN AllTasks /\ AllTasks[22] = <<"validate", "Clap">>
  BY DEF AllTasks
<1>23. 23 \in DOMAIN AllTasks /\ AllTasks[23] = <<"validate", "Vst3">>
  BY DEF AllTasks
<1>24. 24 \in DOMAIN AllTasks /\ AllTasks[24] = <<"validate", "Au">>
  BY DEF AllTasks
<1>25. 25 \in DOMAIN AllTasks /\ AllTasks[25] = <<"install for validation", "Au">>
  <2>1. 25 \in DOMAIN AllTasks
    BY DEF AllTasks
  <2>2. AllTasks[25] = <<"install for validation", "Au">>
    BY DEF AllTasks
  <2>3. QED
    BY <2>1, <2>2
<1>26. 26 \in DOMAIN AllTasks /\ AllTasks[26] = <<"validate", "Aax">>
  BY DEF AllTasks
<1>27. 27 \in DOMAIN AllTasks /\ AllTasks[27] = <<"uninstall", "Clap">>
  BY DEF AllTasks
<1>28. 28 \in DOMAIN AllTasks /\ AllTasks[28] = <<"uninstall", "Vst3">>
  BY DEF AllTasks
<1>29. 29 \in DOMAIN AllTasks /\ AllTasks[29] = <<"uninstall", "Au">>
  BY DEF AllTasks
<1>30. 30 \in DOMAIN AllTasks /\ AllTasks[30] = <<"uninstall", "Aax">>
  BY DEF AllTasks
<1>31. 31 \in DOMAIN AllTasks /\ AllTasks[31] = <<"launch", "Standalone">>
  BY DEF AllTasks
<1>32. \A k \in {"clean", "gui", "rules"} : <<k, "all">> \in ToSet(AllTasks)
  BY <1>5, <1>6, <1>21 DEF ToSet
<1>33. \A b \in Libs : <<"rust", b>> \in ToSet(AllTasks)
  BY <1>7, <1>8 DEF ToSet, Libs
<1>34. \A w \in Wrappers : <<"configure", w>> \in ToSet(AllTasks)
  BY <1>10, <1>13, <1>15 DEF ToSet, Wrappers
<1>35. \A T \in Targets : <<"build", T>> \in ToSet(AllTasks)
  BY <1>9, <1>11, <1>12, <1>14, <1>16 DEF ToSet, Targets, PluginFormats
<1>36. \A T \in PluginFormats : <<"scope", T>> \in ToSet(AllTasks)
  BY <1>1, <1>2, <1>3, <1>4 DEF ToSet, PluginFormats
<1>37. \A T \in PluginFormats : <<"install", T>> \in ToSet(AllTasks)
  BY <1>17, <1>18, <1>19, <1>20 DEF ToSet, PluginFormats
<1>38. \A T \in PluginFormats : <<"validate", T>> \in ToSet(AllTasks)
  BY <1>22, <1>23, <1>24, <1>26 DEF ToSet, PluginFormats
<1>39. \A T \in PluginFormats : <<"uninstall", T>> \in ToSet(AllTasks)
  BY <1>27, <1>28, <1>29, <1>30 DEF ToSet, PluginFormats
<1>40. <<"launch", "Standalone">> \in ToSet(AllTasks) /\ <<"install for validation", "Au">> \in ToSet(AllTasks)
  BY <1>31, <1>25 DEF ToSet
<1>41. QED
  BY <1>32, <1>33, <1>34, <1>35, <1>36, <1>37, <1>38, <1>39, <1>40, Zenon DEF Tasks, Each

LEMMA NeedsFacts ==
  /\ <<"clean", "all">> \in Needs[<<"gui", "all">>]
  /\ \A b \in Libs : <<"gui", "all">> \in Needs[<<"rust", b>>]
  /\ \A w \in Wrappers : <<"rust", RustOf(w)>> \in Needs[<<"configure", w>>]
  /\ <<"rust", "default">> \in Needs[<<"build", "Clap">>]
  /\ \A T \in Targets \ {"Clap"} : <<"configure", Wrapper(T)>> \in Needs[<<"build", T>>]
  /\ \A T \in PluginFormats : <<"build", T>> \in Needs[<<"install", T>>]
  /\ <<"build", "Au">> \in Needs[<<"install for validation", "Au">>]
  /\ <<"build", "Clap">> \in Needs[<<"rules", "all">>]
  /\ \A T \in PluginFormats : <<"rules", "all">> \in Needs[<<"validate", T>>]
  /\ \A T \in PluginFormats \ {"Au"} : <<"build", T>> \in Needs[<<"validate", T>>]
  /\ <<"install for validation", "Au">> \in Needs[<<"validate", "Au">>]
  /\ <<"build", "Standalone">> \in Needs[<<"launch", "Standalone">>]
<1>1. ASSUME NEW t \in ToSet(AllTasks), NEW u, <<u, t>> \in Edges
      PROVE  u \in Needs[t]
  <2>1. Needs[t] = {e[1] : e \in {x \in Edges : x[2] = t}}
    BY DEF Needs
  <2>2. <<u, t>>[1] = u /\ <<u, t>>[2] = t
    OBVIOUS
  <2>3. QED
    BY <1>1, <2>1, <2>2
<1>2. Tasks \subseteq ToSet(AllTasks)
  BY Numbered
<1>3. /\ <<"gui", "all">> \in ToSet(AllTasks)
      /\ <<"rules", "all">> \in ToSet(AllTasks)
      /\ <<"launch", "Standalone">> \in ToSet(AllTasks)
      /\ <<"install for validation", "Au">> \in ToSet(AllTasks)
  BY <1>2, TaskForms
<1>4. /\ \A b \in Libs : <<"rust", b>> \in ToSet(AllTasks)
      /\ \A w \in Wrappers : <<"configure", w>> \in ToSet(AllTasks)
  BY <1>2, TaskForms
<1>5. \A T \in Targets : <<"build", T>> \in ToSet(AllTasks)
  BY <1>2, TaskForms
<1>6. \A T \in PluginFormats : <<"install", T>> \in ToSet(AllTasks)
  BY <1>2, TaskForms
<1>7. \A T \in PluginFormats : <<"validate", T>> \in ToSet(AllTasks)
  BY <1>2, TaskForms
<1>8. /\ <<<<"clean", "all">>, <<"gui", "all">>>> \in Edges
      /\ <<<<"rust", "default">>, <<"build", "Clap">>>> \in Edges
      /\ <<<<"build", "Clap">>, <<"rules", "all">>>> \in Edges
      /\ <<<<"build", "Au">>, <<"install for validation", "Au">>>> \in Edges
      /\ <<<<"install for validation", "Au">>, <<"validate", "Au">>>> \in Edges
      /\ <<<<"build", "Standalone">>, <<"launch", "Standalone">>>> \in Edges
  BY DEF Edges
<1>9. /\ \A b \in Libs : <<<<"gui", "all">>, <<"rust", b>>>> \in Edges
      /\ \A w \in Wrappers : <<<<"rust", RustOf(w)>>, <<"configure", w>>>> \in Edges
      /\ \A T \in Targets \ {"Clap"} : <<<<"configure", Wrapper(T)>>, <<"build", T>>>> \in Edges
      /\ \A T \in PluginFormats : <<<<"build", T>>, <<"install", T>>>> \in Edges
      /\ \A T \in PluginFormats : <<<<"rules", "all">>, <<"validate", T>>>> \in Edges
      /\ \A T \in PluginFormats \ {"Au"} : <<<<"build", T>>, <<"validate", T>>>> \in Edges
  BY Zenon DEF Edges, Libs
<1>10. "Clap" \in Targets /\ "Au" \in PluginFormats
  BY DEF Targets, PluginFormats
<1>11. \A b \in Libs : <<"gui", "all">> \in Needs[<<"rust", b>>]
  BY <1>1, <1>4, <1>9, Zenon
<1>12. \A w \in Wrappers : <<"rust", RustOf(w)>> \in Needs[<<"configure", w>>]
  BY <1>1, <1>4, <1>9, Zenon
<1>13. \A T \in Targets \ {"Clap"} : <<"configure", Wrapper(T)>> \in Needs[<<"build", T>>]
  BY <1>1, <1>5, <1>9, Zenon
<1>14. \A T \in PluginFormats : <<"build", T>> \in Needs[<<"install", T>>]
  BY <1>1, <1>6, <1>9, Zenon
<1>15. \A T \in PluginFormats : <<"rules", "all">> \in Needs[<<"validate", T>>]
  BY <1>1, <1>7, <1>9, Zenon
<1>16. \A T \in PluginFormats \ {"Au"} : <<"build", T>> \in Needs[<<"validate", T>>]
  BY <1>1, <1>7, <1>9, Zenon
<1>17. /\ <<"clean", "all">> \in Needs[<<"gui", "all">>]
       /\ <<"rust", "default">> \in Needs[<<"build", "Clap">>]
       /\ <<"build", "Au">> \in Needs[<<"install for validation", "Au">>]
       /\ <<"build", "Clap">> \in Needs[<<"rules", "all">>]
       /\ <<"install for validation", "Au">> \in Needs[<<"validate", "Au">>]
       /\ <<"build", "Standalone">> \in Needs[<<"launch", "Standalone">>]
  <2>1. <<"build", "Clap">> \in ToSet(AllTasks) /\ <<"validate", "Au">> \in ToSet(AllTasks)
    BY <1>5, <1>7, <1>10, Zenon
  <2>2. QED
    BY <1>1, <1>3, <1>8, <2>1, Zenon
<1>18. QED
  BY <1>11, <1>12, <1>13, <1>14, <1>15, <1>16, <1>17

\* What has succeeded below a task that has.
LEMMA Below ==
  ASSUME NEW st, Closed(DOMAIN st), Ordered(st)
  PROVE  /\ OkIn(st, <<"gui", "all">>) /\ <<"clean", "all">> \in DOMAIN st =>
              OkIn(st, <<"clean", "all">>)
         /\ \A b \in Libs : OkIn(st, <<"rust", b>>) => OkIn(st, <<"gui", "all">>)
         /\ \A T \in Targets : OkIn(st, <<"build", T>>) =>
              /\ OkIn(st, <<"rust", BuiltFrom(T)>>)
              /\ T # "Clap" => OkIn(st, <<"configure", Wrapper(T)>>)
         /\ \A T \in PluginFormats : OkIn(st, <<"install", T>>) => OkIn(st, <<"build", T>>)
         /\ OkIn(st, <<"install for validation", "Au">>) => OkIn(st, <<"build", "Au">>)
         /\ OkIn(st, <<"launch", "Standalone">>) => OkIn(st, <<"build", "Standalone">>)
         /\ OkIn(st, <<"rules", "all">>) => OkIn(st, <<"build", "Clap">>)
         /\ \A T \in PluginFormats : OkIn(st, <<"validate", T>>) =>
              /\ OkIn(st, <<"rules", "all">>) /\ OkIn(st, <<"build", T>>)
              /\ T = "Au" => OkIn(st, <<"install for validation", "Au">>)
<1>1. ASSUME NEW t, NEW u, OkIn(st, t), u \in Needs[t], u \in DOMAIN st
      PROVE  OkIn(st, u)
  BY <1>1, Zenon DEF OkIn, Ordered
<1>2. OkIn(st, <<"gui", "all">>) /\ <<"clean", "all">> \in DOMAIN st => OkIn(st, <<"clean", "all">>)
  BY <1>1, NeedsFacts
<1>3. ASSUME NEW b \in Libs, OkIn(st, <<"rust", b>>)
      PROVE  OkIn(st, <<"gui", "all">>)
  <2>1. <<"gui", "all">> \in DOMAIN st
    BY <1>3 DEF Closed, OkIn
  <2>2. QED
    BY <1>1, <1>3, <2>1, NeedsFacts
<1>4. ASSUME NEW T \in Targets, OkIn(st, <<"build", T>>)
      PROVE  /\ OkIn(st, <<"rust", BuiltFrom(T)>>)
             /\ T # "Clap" => OkIn(st, <<"configure", Wrapper(T)>>)
  <2>1. <<"rust", BuiltFrom(T)>> \in DOMAIN st
    BY <1>4 DEF Closed, OkIn
  <2>2. CASE T = "Clap"
    BY <1>1, <1>4, <2>1, <2>2, NeedsFacts DEF BuiltFrom
  <2>3. CASE T # "Clap"
    <3>1. <<"configure", Wrapper(T)>> \in DOMAIN st
      BY <1>4, <2>3 DEF Closed, OkIn
    <3>2. OkIn(st, <<"configure", Wrapper(T)>>)
      BY <1>1, <1>4, <2>3, <3>1, NeedsFacts
    <3>3. Wrapper(T) \in Wrappers /\ RustOf(Wrapper(T)) = BuiltFrom(T)
      BY <2>3 DEF Wrapper, Wrappers, RustOf, BuiltFrom, Targets, PluginFormats
    <3>4. <<"rust", BuiltFrom(T)>> \in Needs[<<"configure", Wrapper(T)>>]
      BY <3>3, NeedsFacts
    <3>5. QED
      BY <1>1, <2>1, <2>3, <3>2, <3>4
  <2>4. QED
    BY <2>2, <2>3
<1>5. ASSUME NEW T \in PluginFormats, OkIn(st, <<"install", T>>)
      PROVE  OkIn(st, <<"build", T>>)
  <2>1. <<"build", T>> \in DOMAIN st
    BY <1>5 DEF Closed, OkIn
  <2>2. QED
    BY <1>1, <1>5, <2>1, NeedsFacts
<1>6. OkIn(st, <<"install for validation", "Au">>) => OkIn(st, <<"build", "Au">>)
  BY <1>1, NeedsFacts DEF Closed, OkIn
<1>7. OkIn(st, <<"launch", "Standalone">>) => OkIn(st, <<"build", "Standalone">>)
  BY <1>1, NeedsFacts DEF Closed, OkIn
<1>8. OkIn(st, <<"rules", "all">>) => OkIn(st, <<"build", "Clap">>)
  BY <1>1, NeedsFacts DEF Closed, OkIn
<1>9. ASSUME NEW T \in PluginFormats, OkIn(st, <<"validate", T>>)
      PROVE  /\ OkIn(st, <<"rules", "all">>) /\ OkIn(st, <<"build", T>>)
             /\ T = "Au" => OkIn(st, <<"install for validation", "Au">>)
  <2>1. /\ <<"rules", "all">> \in DOMAIN st /\ <<"build", T>> \in DOMAIN st
        /\ T = "Au" => <<"install for validation", T>> \in DOMAIN st
    BY <1>9 DEF Closed, OkIn
  <2>2. OkIn(st, <<"rules", "all">>)
    BY <1>1, <1>9, <2>1, NeedsFacts
  <2>3. CASE T = "Au"
    BY <1>1, <1>6, <1>9, <2>1, <2>2, <2>3, NeedsFacts
  <2>4. CASE T # "Au"
    BY <1>1, <1>9, <2>1, <2>2, <2>4, NeedsFacts
  <2>5. QED
    BY <2>3, <2>4
<1>10. QED
  BY <1>2, <1>3, <1>4, <1>5, <1>6, <1>7, <1>8, <1>9

\* Rules that pass for some formats pass for each of them.
LEMMA RulesMonotone ==
  ASSUME NEW p, NEW ts, NEW T \in ts, RulesPass(p, ts)
  PROVE  RulesPass(p, {T})
<1>1. \A rule : Applies(rule, {T}) => Applies(rule, ts)
  BY DEF Applies
<1>2. \A rule \in KnownRules : Status(rule, p, {T}) = "failed" => Status(rule, p, ts) = "failed"
  BY <1>1 DEF Status, SchemaStatus
<1>3. QED
  BY <1>2 DEF RulesPass

-----------------------------------------------------------------------------
(***************************************************************************)
(* One task: what it achieves, and that it undoes nobody's achievement.    *)
(***************************************************************************)
\* What a task finds that does not run before those it waits for.
Ready(t, d) ==
  /\ \A b \in Libs : t = <<"rust", b>> => d.gui >= since.src
  /\ \A T \in Targets : t = <<"build", T>> => d.lib[BuiltFrom(T)] >= since.src
  /\ \A T \in PluginFormats :
       t \in {<<"install", T>>, <<"install for validation", T>>, <<"validate", T>>} /\ Told(T, d) =>
         Built(T, d) >= since.src

\* What cmake writes hangs on its cache only.
LEMMA SameCache ==
  ASSUME NEW T, NEW d, NEW e, T = "Clap" \/ e.cache[Wrapper(T)] = d.cache[Wrapper(T)]
  PROVE  Writes(T, e) = Writes(T, d)
<1>1. CASE T = "Clap"
  BY <1>1 DEF Writes
<1>2. CASE e.cache[Wrapper(T)] = d.cache[Wrapper(T)]
  BY <1>2 DEF Writes
<1>3. QED
  BY <1>1, <1>2

\* A task that succeeds on such a disk has done its part.
LEMMA Does ==
  ASSUME NEW t \in Tasks, Belongs({t}, req.cmd), req \in Requests,
         src \in Nat, since.src \in Nat, since.src <= src, since.meta \in Metas,
         NEW d \in Disks, Ready(t, d), NEW e \in Full(t, d)
  PROVE  Achieved(t, e)
<1>1. CASE t = <<"clean", "all">>
  BY <1>1 DEF Achieved
<1>2. CASE t = <<"gui", "all">>
  <2>1. e = GuiBuilt(d)
    BY <1>2 DEF Full
  <2>2. e.gui = src
    BY <2>1, PutGui DEF GuiBuilt
  <2>3. QED
    BY <1>2, <2>2 DEF Achieved
<1>3. CASE t = <<"rules", "all">>
  <2>1. e \in RulesFull(d)
    BY <1>3, Works
  <2>2. e = d /\ RulesPass(Judged(d), Resolve(req, since.meta) \cap PluginFormats)
    BY <2>1 DEF RulesFull
  <2>3. QED
    BY <1>3, <2>2 DEF Achieved
<1>4. CASE t = <<"launch", "Standalone">>
  BY <1>4 DEF Achieved
<1>5. CASE t = <<"install for validation", "Au">>
  <2>1. e \in InstallFull("Au", "user", d)
    BY <1>5, Works
  <2>2. e = Installed("Au", {"user"}, Built("Au", d), d)
    BY <2>1 DEF InstallFull
  <2>3. "Au" \in PluginFormats /\ "user" \in Scopes /\ Built("Au", d) \in Int
    BY BuiltType DEF PluginFormats, Scopes
  <2>4. There("user", "Au", e) = Built("Au", d) /\ e.cache = d.cache
    BY <2>2, <2>3, PutInstalled DEF Else, Fields
  <2>5. Told("Au", d) => Built("Au", d) >= since.src
    BY <1>5, <2>3 DEF Ready
  <2>6. Told("Au", e) => Told("Au", d)
    BY <2>4, SameCache DEF Told
  <2>7. QED
    BY <1>5, <2>4, <2>5, <2>6 DEF Achieved
<1>6. ASSUME NEW b \in Libs, t = <<"rust", b>>
      PROVE  Achieved(t, e)
  <2>1. e = RustBuilt(b, d)
    BY <1>6 DEF Full
  <2>2. d.gui >= since.src /\ d.gui \in Int
    BY <1>6 DEF Ready, Disks
  <2>3. Older(src, d.gui) >= since.src /\ Older(src, d.gui) \in Int
    BY <2>2 DEF Older
  <2>4. e.lib[b] = Older(src, d.gui)
    BY <2>1, <2>3 DEF RustBuilt, Disks
  <2>5. QED
    BY <1>6, <2>3, <2>4 DEF Achieved
<1>7. ASSUME NEW w \in Wrappers, t = <<"configure", w>>
      PROVE  Achieved(t, e)
  BY <1>7 DEF Achieved
<1>8. ASSUME NEW T \in Targets, t = <<"build", T>>
      PROVE  Achieved(t, e)
  <2>1. e \in BundleFull(T, d)
    BY <1>8, Works
  <2>2. e = Put(T, Writes(T, d), d.lib[BuiltFrom(T)], d)
    BY <2>1 DEF BundleFull, Bundled
  <2>3. e.cache = d.cache /\ \A n \in Names \cap Writes(T, d) : e.bundle[T][n] = d.lib[BuiltFrom(T)]
    BY <2>2 DEF Put, Disks
  <2>4. d.lib[BuiltFrom(T)] >= since.src
    BY <1>8 DEF Ready
  <2>5. Writes(T, e) = Writes(T, d)
    BY <2>3, SameCache
  <2>6. NamesOf(T, since.meta) \subseteq Names
    BY NameFacts
  <2>7. \A n \in NamesOf(T, since.meta) \cap Writes(T, e) : e.bundle[T][n] >= since.src
    BY <2>3, <2>4, <2>5, <2>6
  <2>8. QED
    BY <1>8, <2>7 DEF Achieved
<1>9. ASSUME NEW T \in PluginFormats, t = <<"scope", T>>
      PROVE  Achieved(t, e)
  BY <1>9 DEF Achieved
<1>10. ASSUME NEW T \in PluginFormats, t = <<"install", T>>
       PROVE  Achieved(t, e)
  <2> DEFINE s == Destination(req.scope, T)
  <2>1. s \in Scopes
    BY <1>10, RequestType DEF Belongs, Destination, TakesScope, Scopes
  <2>2. e \in InstallFull(T, s, d)
    BY <1>10, Works
  <2>3. e = Installed(T, {s}, Built(T, d), d)
    BY <2>2 DEF InstallFull
  <2>4. Built(T, d) \in Int
    BY BuiltType
  <2>5. There(s, T, e) = Built(T, d) /\ e.cache = d.cache
    BY <2>1, <2>3, <2>4, PutInstalled DEF Else, Fields
  <2>6. Told(T, d) => Built(T, d) >= since.src
    BY <1>10 DEF Ready
  <2>7. Told(T, e) => Told(T, d)
    BY <2>5, SameCache DEF Told
  <2>8. QED
    BY <1>10, <2>5, <2>6, <2>7 DEF Achieved
<1>11. ASSUME NEW T \in PluginFormats, t = <<"validate", T>>
       PROVE  Achieved(t, e)
  <2>1. e \in ValidateFull(T, d)
    BY <1>11, Works
  <2>2. CASE T = "Au"
    <3>1. e = d /\ There("system", "Au", d) = Absent
      BY <2>1, <2>2 DEF ValidateFull, Checked, ShadowsAu
    <3>2. QED
      BY <1>11, <2>2, <3>1 DEF Achieved
  <2>3. CASE T = "Aax"
    <3>1. e \in DttRun(d)
      BY <2>1, <2>3 DEF ValidateFull, Checked
    <3>2. e = [[FreshResults(d) EXCEPT !.tool["Aax"] = "ready"] EXCEPT !.passed = Built("Aax", d)]
      BY <3>1 DEF DttRun, Unpacked
    <3>3. e.passed = Built("Aax", d) /\ e.tool["Aax"] = "ready" /\ e.cache = d.cache
      BY <3>2 DEF FreshResults, Disks, PluginFormats
    <3>4. Told("Aax", d) => Built("Aax", d) >= since.src
      BY <1>11, <2>3 DEF Ready
    <3>5. Told("Aax", e) => Told("Aax", d)
      BY <3>3, SameCache DEF Told
    <3>6. QED
      BY <1>11, <2>3, <3>3, <3>4, <3>5 DEF Achieved
  <2>4. CASE T \notin {"Au", "Aax"}
    <3>1. e \in ToolFull(T, d)
      BY <2>1, <2>4 DEF ValidateFull, Checked
    <3>2. e = [d EXCEPT !.tool[T] = "ready"]
      BY <3>1 DEF ToolFull
    <3>3. e.tool[T] = "ready"
      BY <2>4, <3>2 DEF Disks
    <3>4. QED
      BY <1>11, <2>4, <3>3 DEF Achieved
  <2>5. QED
    BY <2>2, <2>3, <2>4
<1>12. ASSUME NEW T \in PluginFormats, t = <<"uninstall", T>>
       PROVE  Achieved(t, e)
  <2> DEFINE S == UninstallScopes(req.scope, T)
  <2>1. S \subseteq Scopes
    BY <1>12, RequestType DEF Belongs, UninstallScopes, TakesScope, Scopes
  <2>2. e \in UninstallFull(T, S, d)
    BY <1>12, Works
  <2>3. ~req.dry => e = Installed(T, S, Absent, d)
    BY <2>2 DEF UninstallFull
  <2>4. ~req.dry => \A s \in S : There(s, T, e) = Absent
    BY <2>1, <2>3, Marks, PutInstalled
  <2>5. QED
    BY <1>12, <2>4 DEF Achieved
<1>13. QED
  BY <1>1, <1>2, <1>3, <1>4, <1>5, <1>6, <1>7, <1>8, <1>9, <1>10, <1>11, <1>12, TaskCases

\* A task whose turn it is leaves alone what others have achieved.
LEMMA Keeps ==
  ASSUME NEW st, Closed(DOMAIN st), Ordered(st), Belongs(DOMAIN st, req.cmd),
         NEW u \in DOMAIN st, st[u] = "ok", u \in Tasks,
         NEW t \in DOMAIN st, st[t] = "planned", t \in Tasks,
         req \in Requests,
         NEW d \in Disks, NEW e, Frame(t, d, e), Achieved(u, d)
  PROVE  Achieved(u, e)
<1>1. OkIn(st, u) /\ ~OkIn(st, t) /\ u # t
  BY DEF OkIn
<1>2. ASSUME OkIn(st, <<"gui", "all">>)
      PROVE  t # <<"clean", "all">>
  BY <1>1, <1>2, Below
<1>3. \A T \in PluginFormats :
        /\ t = <<"install", T>> => req.cmd = "install"
        /\ t = <<"uninstall", T>> => req.cmd = "uninstall"
        /\ u = <<"install", T>> => req.cmd = "install"
        /\ u = <<"uninstall", T>> => req.cmd = "uninstall"
        /\ u = <<"validate", T>> => req.cmd = "validate"
  BY DEF Belongs
<1>4. /\ t = <<"install for validation", "Au">> => req.cmd = "validate"
      /\ u = <<"install for validation", "Au">> => req.cmd = "validate"
  BY DEF Belongs
<1>5. ASSUME NEW T \in PluginFormats, t = <<"install for validation", T>>
      PROVE  T = "Au"
  BY <1>5 DEF Tasks, Each
<1>6. u = <<"gui", "all">> => e.gui >= since.src
  BY <1>1, Zenon DEF Achieved, Frame
<1>7. ASSUME NEW b \in Libs, u = <<"rust", b>>
      PROVE  e.lib[b] >= since.src
  <2>1. t # <<"clean", "all">>
    BY <1>1, <1>2, <1>7, Below
  <2>2. e.lib[b] = d.lib[b]
    BY <1>1, <1>7, <2>1 DEF Frame
  <2>3. QED
    BY <1>7, <2>2 DEF Achieved
<1>8. \A T \in Targets : OkIn(st, <<"build", T>>) => t # <<"clean", "all">>
  <2>1. \A T \in Targets : BuiltFrom(T) \in Libs
    BY DEF BuiltFrom, Libs
  <2>2. QED
    BY <1>2, <2>1, Below
<1>b. ASSUME NEW T \in Targets, OkIn(st, <<"build", T>>)
      PROVE  Writes(T, e) = Writes(T, d)
  <2>1. t # <<"clean", "all">>
    BY <1>8, <1>b
  <2>2. CASE T # "Clap"
    <3>1. OkIn(st, <<"configure", Wrapper(T)>>)
      BY <1>b, <2>2, Below
    <3>2. t # <<"configure", Wrapper(T)>>
      BY <1>1, <3>1
    <3>3. Wrapper(T) \in Wrappers
      BY <2>2 DEF Wrapper, Wrappers, Targets, PluginFormats
    <3>4. e.cache[Wrapper(T)] = d.cache[Wrapper(T)]
      BY <2>1, <3>2, <3>3 DEF Frame
    <3>5. QED
      BY <3>4, SameCache
  <2>3. CASE T = "Clap"
    BY <2>3, SameCache
  <2>4. QED
    BY <2>2, <2>3
<1>c. ASSUME NEW T \in PluginFormats, OkIn(st, <<"build", T>>), Told(T, e)
      PROVE  Told(T, d)
  BY <1>b, <1>c DEF Told, Targets
<1>9. ASSUME NEW T \in Targets, u = <<"build", T>>
      PROVE  \A n \in NamesOf(T, since.meta) \cap Writes(T, e) : e.bundle[T][n] >= since.src
  <2>1. t # <<"clean", "all">>
    BY <1>1, <1>8, <1>9
  <2>2. e.bundle[T] = d.bundle[T]
    BY <1>1, <1>9, <2>1 DEF Frame
  <2>3. Writes(T, e) = Writes(T, d)
    BY <1>1, <1>9, <1>b
  <2>4. QED
    BY <1>9, <2>2, <2>3 DEF Achieved
<1>10. ASSUME NEW T \in PluginFormats, u = <<"install", T>>, Told(T, e)
       PROVE  There(Destination(req.scope, T), T, e) >= since.src
  <2>1. req.cmd = "install"
    BY <1>3, <1>10
  <2>2. Destination(req.scope, T) \in Scopes
    BY <2>1, RequestType DEF Destination, TakesScope, Scopes
  <2>3. t \notin {<<"install", T>>, <<"install for validation", T>>, <<"uninstall", T>>}
    BY <1>1, <1>3, <1>4, <1>5, <1>10, <2>1
  <2>4. There(Destination(req.scope, T), T, e) = There(Destination(req.scope, T), T, d)
    BY <2>2, <2>3 DEF Frame, There
  <2>5. OkIn(st, <<"build", T>>)
    BY <1>1, <1>10, Below
  <2>6. Told(T, d)
    BY <1>c, <1>10, <2>5
  <2>7. QED
    BY <1>10, <2>4, <2>6 DEF Achieved
<1>11. ASSUME u = <<"install for validation", "Au">>, Told("Au", e)
       PROVE  There("user", "Au", e) >= since.src
  <2>1. "Au" \in PluginFormats /\ "user" \in Scopes
    BY DEF PluginFormats, Scopes
  <2>2. t \notin {<<"install", "Au">>, <<"install for validation", "Au">>, <<"uninstall", "Au">>}
    BY <1>1, <1>3, <1>4, <1>11, <2>1
  <2>3. There("user", "Au", e) = There("user", "Au", d)
    BY <2>1, <2>2 DEF Frame, There
  <2>4. OkIn(st, <<"build", "Au">>)
    BY <1>1, <1>11, Below
  <2>5. Told("Au", d)
    BY <1>c, <1>11, <2>1, <2>4
  <2>6. QED
    BY <1>11, <2>3, <2>5 DEF Achieved
<1>12. "Clap" \in Targets
  BY DEF Targets, PluginFormats
<1>13. ASSUME u = <<"rules", "all">>
       PROVE  RulesPass(Judged(e), Resolve(req, since.meta) \cap PluginFormats)
  <2>1. OkIn(st, <<"build", "Clap">>)
    BY <1>1, <1>13, Below
  <2>2. t # <<"build", "Clap">> /\ t # <<"clean", "all">>
    BY <1>1, <1>8, <1>12, <2>1
  <2>3. e.bundle["Clap"] = d.bundle["Clap"]
    BY <1>12, <2>2 DEF Frame
  <2>4. Judged(e) = Judged(d)
    BY <2>3 DEF Judged, Built
  <2>5. QED
    BY <1>13, <2>4 DEF Achieved
<1>14. ASSUME NEW T \in PluginFormats, u = <<"validate", T>>
       PROVE  /\ T = "Au" => There("system", "Au", e) = Absent
              /\ T # "Au" => e.tool[T] = "ready"
              /\ T = "Aax" /\ Told("Aax", e) => e.passed >= since.src
  <2>1. req.cmd = "validate" /\ T \in Targets
    BY <1>3, <1>14 DEF Targets
  <2>2. OkIn(st, <<"build", T>>)
    BY <1>1, <1>14, Below
  <2>3. t # <<"validate", T>> /\ t # <<"clean", "all">>
    BY <1>1, <1>8, <1>14, <2>1, <2>2
  <2>4. CASE T = "Au"
    <3>1. OkIn(st, <<"install for validation", "Au">>)
      BY <1>1, <1>14, <2>4, Below
    <3>2. t \notin {<<"install", "Au">>, <<"install for validation", "Au">>, <<"uninstall", "Au">>}
      BY <1>1, <1>3, <2>1, <2>4, <3>1
    <3>3. "system" \in Scopes
      BY DEF Scopes
    <3>4. There("system", "Au", e) = There("system", "Au", d)
      BY <2>4, <3>2, <3>3 DEF Frame, There
    <3>5. QED
      BY <1>14, <2>4, <3>4 DEF Achieved
  <2>5. T # "Au" => e.tool[T] = d.tool[T]
    BY <2>3 DEF Frame
  <2>6. T = "Aax" => e.passed = d.passed
    BY <2>3 DEF Frame
  <2>7. T = "Aax" /\ Told("Aax", e) => Told("Aax", d)
    BY <1>c, <2>2
  <2>8. QED
    BY <1>14, <2>4, <2>5, <2>6, <2>7 DEF Achieved
<1>15. ASSUME NEW T \in PluginFormats, u = <<"uninstall", T>>, ~req.dry
       PROVE  \A s \in UninstallScopes(req.scope, T) : There(s, T, e) = Absent
  <2>1. req.cmd = "uninstall"
    BY <1>3, <1>15
  <2>2. UninstallScopes(req.scope, T) \subseteq Scopes
    BY <2>1, RequestType DEF UninstallScopes, TakesScope, Scopes
  <2>3. t \notin {<<"install", T>>, <<"install for validation", T>>, <<"uninstall", T>>}
    BY <1>1, <1>3, <1>4, <1>5, <1>15, <2>1
  <2>4. \A s \in Scopes : There(s, T, e) = There(s, T, d)
    BY <2>3 DEF Frame, There
  <2>5. QED
    BY <1>15, <2>2, <2>4 DEF Achieved
<1>16. QED
  BY <1>6, <1>7, <1>9, <1>10, <1>11, <1>13, <1>14, <1>15 DEF Achieved

-----------------------------------------------------------------------------
(***************************************************************************)
(* The steps.                                                              *)
(***************************************************************************)
LEMMA TurnFacts ==
  ASSUME IInv, NEW t \in Turn
  PROVE  /\ phase = "run" /\ req \in Requests /\ since.meta \in Metas
         /\ t \in DOMAIN status /\ status[t] = "planned" /\ t \in Tasks
         /\ DOMAIN status \subseteq Tasks /\ Closed(DOMAIN status)
         /\ Belongs(DOMAIN status, req.cmd) /\ Belongs({t}, req.cmd)
         /\ \A u \in DependsOn(t) : status[u] # "planned"
<1>1. phase = "run"
  BY DEF Turn
<1>2. t \in Planned /\ DependsOn(t) \cap Planned = {}
  BY <1>1 DEF Turn
<1>3. t \in DOMAIN status /\ status[t] = "planned"
  BY <1>2 DEF Planned
<1>4. req \in Requests /\ since.meta \in Metas
  BY <1>1 DEF IInv, TypeOK
<1>5. DOMAIN status = Nodes(req, since.meta)
  BY <1>1 DEF IInv, PlanKept
<1>6. DOMAIN status \subseteq Tasks /\ Closed(DOMAIN status) /\ Belongs(DOMAIN status, req.cmd)
  BY <1>4, <1>5, NodesProps
<1>7. Belongs({t}, req.cmd)
  BY <1>3, <1>6 DEF Belongs
<1>8. \A u \in DependsOn(t) : status[u] # "planned"
  BY <1>2 DEF Planned, DependsOn
<1>9. QED
  BY <1>1, <1>3, <1>4, <1>6, <1>7, <1>8

\* A turn, however it ends, leaves what has been achieved.
LEMMA DiskStep ==
  ASSUME IInv, NEW t \in Turn, NEW e \in Full(t, disk) \cup Part(t, disk)
  PROVE  /\ e \in Disks /\ e.installed["user"]["Aax"] = Nothing
         /\ \A u \in DOMAIN status : status[u] = "ok" => Achieved(u, e)
<1>1. /\ src \in Nat /\ since.meta \in Metas /\ req \in Requests /\ disk \in Disks
      /\ t \in Tasks /\ Belongs({t}, req.cmd)
  BY TurnFacts DEF IInv, TypeOK
<1>2. Frame(t, disk, e)
  BY <1>1, WorkFrame
<1>3. e \in Disks /\ e.installed["user"]["Aax"] = Nothing
  BY <1>2 DEF Frame, IInv, NoUsersAax
<1>4. ASSUME NEW u \in DOMAIN status, status[u] = "ok"
      PROVE  Achieved(u, e)
  <2>1. u \in Tasks /\ Achieved(u, disk) /\ Ordered(status)
    BY <1>4, TurnFacts DEF IInv, Kept
  <2>2. QED
    BY <1>1, <1>2, <1>4, <2>1, TurnFacts, Keeps
<1>5. QED
  BY <1>3, <1>4

\* A task that is not cut off has had all it waits for.
LEMMA DoneOrdered ==
  ASSUME IInv, NEW t \in Turn, ~IsCutOff(t)
  PROVE  Ordered([status EXCEPT ![t] = "ok"])
<1> DEFINE st == [status EXCEPT ![t] = "ok"]
<1>1. t \in DOMAIN status /\ status[t] = "planned"
  BY TurnFacts
<1>2. status \in [DOMAIN status -> Statuses]
  BY DEF IInv, TypeOK
<1>3. DOMAIN st = DOMAIN status /\ st[t] = "ok" /\ \A u \in DOMAIN status : u # t => st[u] = status[u]
  BY <1>1, <1>2
<1> HIDE DEF st
<1>4. \A u \in Needs[t] \cap DOMAIN status : status[u] = "ok"
  <2>1. \A u \in DependsOn(t) : status[u] \notin {"planned", "failed", "skipped"}
    BY TurnFacts DEF IsCutOff
  <2>2. \A u \in DOMAIN status : status[u] \in Statuses
    BY <1>2
  <2>3. QED
    BY <2>1, <2>2 DEF DependsOn, Statuses
<1>5. ASSUME NEW v \in DOMAIN st, st[v] = "ok", NEW u \in Needs[v] \cap DOMAIN st
      PROVE  st[u] = "ok"
  <2>1. CASE v = t
    BY <1>3, <1>4, <1>5, <2>1
  <2>2. CASE v # t
    <3>1. status[u] = "ok"
      BY <1>3, <1>5, <2>2 DEF IInv, Ordered
    <3>2. QED
      BY <1>3, <1>5, <3>1
  <2>3. QED
    BY <2>1, <2>2
<1>6. Ordered(st)
  BY <1>5 DEF Ordered
<1>7. QED
  BY <1>6 DEF st

LEMMA ReadyNow ==
  ASSUME IInv, NEW t \in Turn, ~IsCutOff(t)
  PROVE  Ready(t, disk)
<1> DEFINE st == [status EXCEPT ![t] = "ok"]
<1>1. t \in DOMAIN status /\ status[t] = "planned"
  BY TurnFacts
<1>2. status \in [DOMAIN status -> Statuses]
  BY DEF IInv, TypeOK
<1>3. DOMAIN st = DOMAIN status /\ st[t] = "ok" /\ \A u \in DOMAIN status : u # t => st[u] = status[u]
  BY <1>1, <1>2
<1>4. Ordered(st)
  BY DoneOrdered
<1> HIDE DEF st
<1>5. Closed(DOMAIN st)
  BY <1>3, TurnFacts
<1>6. ASSUME NEW u, u # t, OkIn(st, u)
      PROVE  Achieved(u, disk)
  <2>1. u \in DOMAIN status /\ status[u] = "ok"
    BY <1>3, <1>6 DEF OkIn
  <2>2. QED
    BY <2>1 DEF IInv, Kept
<1>7. OkIn(st, t)
  BY <1>1, <1>3 DEF OkIn
<1>8. ASSUME NEW b \in Libs, t = <<"rust", b>>
      PROVE  disk.gui >= since.src
  <2>1. OkIn(st, <<"gui", "all">>)
    BY <1>4, <1>5, <1>7, <1>8, Below
  <2>2. Achieved(<<"gui", "all">>, disk)
    BY <1>6, <1>8, <2>1
  <2>3. QED
    BY <2>2 DEF Achieved
<1>9. ASSUME NEW T \in Targets, t = <<"build", T>>
      PROVE  disk.lib[BuiltFrom(T)] >= since.src
  <2>1. OkIn(st, <<"rust", BuiltFrom(T)>>)
    BY <1>4, <1>5, <1>7, <1>9, Below
  <2>2. Achieved(<<"rust", BuiltFrom(T)>>, disk)
    BY <1>6, <1>9, <2>1
  <2>3. BuiltFrom(T) \in Libs
    BY DEF BuiltFrom, Libs
  <2>4. QED
    BY <2>2, <2>3 DEF Achieved
<1>10. ASSUME NEW T \in PluginFormats,
              t \in {<<"install", T>>, <<"install for validation", T>>, <<"validate", T>>}
       PROVE  Told(T, disk) => Built(T, disk) >= since.src
  <2>1. t = <<"install for validation", T>> => T = "Au"
    BY TurnFacts DEF Tasks, Each
  <2>2. OkIn(st, <<"build", T>>)
    BY <1>4, <1>5, <1>7, <1>10, <2>1, Below
  <2>3. <<"build", T>> # t
    <3>1. PICK k \in {"install", "install for validation", "validate"} : t = <<k, T>>
      BY <1>10
    <3>2. k # "build" /\ <<k, T>>[1] = k /\ <<"build", T>>[1] = "build"
      BY <3>1
    <3>3. QED
      BY <3>1, <3>2, Zenon
  <2>4. Achieved(<<"build", T>>, disk)
    BY <1>6, <2>2, <2>3
  <2>5. T \in Targets /\ NamesOf(T, since.meta) = {BundleName(since.meta)}
    BY TurnFacts, NameFacts DEF Targets
  <2>6. QED
    BY <2>4, <2>5 DEF Achieved, Told, Built
<1>11. QED
  BY <1>8, <1>9, <1>10 DEF Ready

\* Achievements are those of a command, whatever else changes.
LEMMA AchievedLater ==
  ASSUME NEW t, UNCHANGED <<req, since>>, Achieved(t, disk')
  PROVE  Achieved(t, disk)'
<1>1. ASSUME NEW T
      PROVE  Writes(T, disk)' = Writes(T, disk')
  BY DEF Writes
<1>2. QED
  BY <1>1 DEF Achieved, Judged, Built, There, Told

\* A task's turn ends: its own status changes, and the disk as it may.
LEMMA Settles ==
  ASSUME IInv, NEW t \in Turn, NEW x \in {"ok", "failed", "skipped"},
         status' = [status EXCEPT ![t] = x], UNCHANGED <<src, meta, req, since>>,
         disk' \in Disks, disk'.installed["user"]["Aax"] = Nothing,
         \A u \in DOMAIN status : status[u] = "ok" => Achieved(u, disk'),
         x = "ok" => Achieved(t, disk') /\ Ordered([status EXCEPT ![t] = "ok"]),
         x = "skipped" => IsCutOff(t),
         phase' = "run" \/ (phase' = "err" /\ x = "failed")
  PROVE  IInv'
<1>1. /\ t \in DOMAIN status /\ status[t] = "planned" /\ phase = "run"
  BY TurnFacts
<1>2. status \in [DOMAIN status -> Statuses] /\ x \in Statuses
  BY DEF IInv, TypeOK, Statuses
<1>3. /\ DOMAIN status' = DOMAIN status /\ status'[t] = x
      /\ \A u \in DOMAIN status : u # t => status'[u] = status[u]
      /\ status' \in [DOMAIN status -> Statuses]
  BY <1>1, <1>2
<1>4. TypeOK'
  BY <1>1, <1>3 DEF IInv, TypeOK
<1>5. PlanKept'
  <2>1. DOMAIN status = Nodes(req, since.meta)
    BY <1>1 DEF IInv, PlanKept
  <2>2. DOMAIN status' = Nodes(req', since'.meta)
    BY <1>3, <2>1
  <2>3. phase' # "none"
    OBVIOUS
  <2>4. QED
    BY <2>2, <2>3 DEF PlanKept
<1>6. Ordered(status)'
  <2>1. CASE x = "ok"
    BY <2>1 DEF Ordered
  <2>2. CASE x # "ok"
    <3>1. ASSUME NEW v \in DOMAIN status', status'[v] = "ok", NEW u \in Needs[v] \cap DOMAIN status'
          PROVE  status'[u] = "ok"
      <4>1. v \in DOMAIN status /\ status[v] = "ok" /\ u \in Needs[v] \cap DOMAIN status
        BY <1>3, <2>2, <3>1
      <4>2. status[u] = "ok"
        BY <4>1 DEF IInv, Ordered
      <4>3. QED
        BY <1>1, <1>3, <4>1, <4>2
    <3>2. QED
      BY <3>1 DEF Ordered
  <2>3. QED
    BY <2>1, <2>2
<1>7. Blamed'
  <2>1. CASE \E u \in DOMAIN status : status[u] = "failed"
    <3>1. \E u \in DOMAIN status' : status'[u] = "failed"
      BY <1>1, <1>3, <2>1
    <3>2. QED
      BY <3>1 DEF Blamed
  <2>2. CASE ~\E u \in DOMAIN status : status[u] = "failed"
    <3>1. \A u \in DOMAIN status : status[u] \notin {"failed", "skipped"}
      BY <2>2 DEF IInv, Blamed
    <3>2. ~IsCutOff(t)
      BY <3>1 DEF IsCutOff, DependsOn
    <3>3. x # "skipped"
      BY <3>2
    <3>4. \A u \in DOMAIN status' : status'[u] = "skipped" => FALSE
      BY <1>1, <1>3, <3>1, <3>3
    <3>5. QED
      BY <3>4 DEF Blamed
  <2>3. QED
    BY <2>1, <2>2
<1>8. Kept'
  <2>1. ASSUME NEW u \in DOMAIN status', status'[u] = "ok"
        PROVE  Achieved(u, disk)'
    <3>1. Achieved(u, disk')
      BY <1>1, <1>3, <2>1
    <3>2. QED
      BY <3>1, AchievedLater
  <2>2. QED
    BY <2>1 DEF Kept
<1>9. NoUsersAax'
  BY DEF NoUsersAax
<1>10. QED
  BY <1>4, <1>5, <1>6, <1>7, <1>8, <1>9 DEF IInv

LEMMA InitInv == Init => IInv
<1> SUFFICES ASSUME Init
             PROVE  IInv
  OBVIOUS
<1>1. disk \in Disks
  BY NothingThere DEF Init, Disks, Absent, Libs, Tools
<1>2. TypeOK
  BY <1>1 DEF Init, TypeOK
<1>3. disk.installed["user"]["Aax"] = Nothing
  BY DEF Init, Scopes, PluginFormats
<1>4. DOMAIN status = {}
  BY DEF Init
<1>5. Ordered(status) /\ Blamed /\ Kept
  BY <1>4 DEF Ordered, Blamed, Kept
<1>6. PlanKept
  BY DEF Init, PlanKept
<1>7. QED
  BY <1>2, <1>3, <1>5, <1>6 DEF IInv, NoUsersAax

LEMMA StartStep ==
  ASSUME IInv, NEW r \in Requests, Start(r)
  PROVE  IInv'
<1>1. /\ req' = r /\ since'.src = src /\ since'.meta = meta /\ UNCHANGED <<src, meta, disk>>
  BY DEF Start
<1>2. phase' \in {"run", "ok", "err"}
  BY DEF Start
<1>3. \/ status' = << >> /\ phase' \in {"ok", "err"} /\ (phase' = "ok" => r.cmd # "uninstall")
      \/ status' = [t \in Nodes(r, meta) |-> "planned"] /\ phase' = "run"
  BY DEF Start
<1>4. status' \in [DOMAIN status' -> Statuses]
  <2>1. CASE status' = << >>
    <3>1. DOMAIN status' = {} /\ status' = [t \in DOMAIN status' |-> status'[t]]
      BY <2>1
    <3>2. QED
      BY <3>1
  <2>2. CASE status' = [t \in Nodes(r, meta) |-> "planned"]
    <3>1. status' \in [Nodes(r, meta) -> Statuses] /\ DOMAIN status' = Nodes(r, meta)
      BY <2>2 DEF Statuses
    <3>2. QED
      BY <3>1
  <2>3. QED
    BY <1>3, <2>1, <2>2
<1>5. TypeOK'
  BY <1>1, <1>2, <1>4 DEF IInv, TypeOK
<1>6. PlanKept'
  BY <1>1, <1>3 DEF PlanKept
<1>7. \A t \in DOMAIN status' : status'[t] = "planned"
  BY <1>3
<1>8. phase' = "ok" => DOMAIN status' = {}
  BY <1>3
<1>9. Ordered(status)' /\ Blamed' /\ Kept'
  BY <1>7, <1>8 DEF Ordered, Blamed, Kept
<1>10. NoUsersAax'
  BY <1>1 DEF IInv, NoUsersAax
<1>11. QED
  BY <1>5, <1>6, <1>9, <1>10 DEF IInv

\* What holds of a command that stands still.
LEMMA Stands ==
  ASSUME IInv, UNCHANGED <<req, since, status>>,
         src' \in Nat, src' >= src, meta' \in Metas,
         disk' \in Disks, disk'.installed["user"]["Aax"] = Nothing,
         \A u \in DOMAIN status : status[u] = "ok" => Achieved(u, disk'),
         (phase = "run" /\ phase' \in {"ok", "err", "killed"}) \/ phase' = phase,
         phase' = "ok" => \A u \in DOMAIN status : status[u] = "ok"
  PROVE  IInv'
<1>1. TypeOK'
  BY DEF IInv, TypeOK
<1>2. PlanKept'
  BY DEF IInv, PlanKept
<1>3. Ordered(status)'
  BY DEF IInv, Ordered
<1>4. Blamed'
  BY DEF IInv, Blamed
<1>5. Kept'
  <2>1. ASSUME NEW u \in DOMAIN status', status'[u] = "ok"
        PROVE  Achieved(u, disk)'
    <3>1. Achieved(u, disk')
      BY <2>1
    <3>2. QED
      BY <3>1, AchievedLater
  <2>2. QED
    BY <2>1 DEF Kept
<1>6. QED
  BY <1>1, <1>2, <1>3, <1>4, <1>5 DEF IInv, NoUsersAax

LEMMA NextInv == IInv /\ [Next]_vars => IInv'
<1> SUFFICES ASSUME IInv, [Next]_vars
             PROVE  IInv'
  OBVIOUS
<1>1. /\ disk \in Disks /\ disk.installed["user"]["Aax"] = Nothing /\ src \in Nat /\ meta \in Metas
      /\ \A u \in DOMAIN status : status[u] = "ok" => Achieved(u, disk)
      /\ status \in [DOMAIN status -> Statuses]
      /\ phase = "ok" => \A u \in DOMAIN status : status[u] = "ok"
  BY DEF IInv, TypeOK, Kept, NoUsersAax, Blamed
<1>2. CASE Edit
  <2>1. src' \in Nat /\ src' >= src /\ meta' \in Metas /\ UNCHANGED <<disk, req, since, status, phase>>
    BY <1>1, <1>2 DEF Edit
  <2>2. QED
    BY <1>1, <2>1, Stands
<1>3. CASE Finish
  <2>1. /\ phase = "run" /\ Planned = {} /\ UNCHANGED <<src, meta, disk, req, since, status>>
        /\ phase' = IF \E t \in DOMAIN status : status[t] = "failed" THEN "err" ELSE "ok"
    BY <1>3 DEF Finish
  <2>2. phase' = "ok" => \A u \in DOMAIN status : status[u] = "ok"
    <3>1. \A u \in DOMAIN status : status[u] \in Statuses /\ status[u] # "planned"
      BY <1>1, <2>1 DEF Planned
    <3>2. (\E u \in DOMAIN status : status[u] = "skipped")
            => \E u \in DOMAIN status : status[u] = "failed"
      BY DEF IInv, Blamed
    <3>3. QED
      BY <2>1, <3>1, <3>2 DEF Statuses
  <2>3. QED
    BY <1>1, <2>1, <2>2, Stands
<1>4. CASE Kill
  <2>1. /\ phase = "run" /\ phase' = "killed" /\ UNCHANGED <<src, meta, req, since, status>>
        /\ disk' = disk \/ \E t \in Turn : disk' \in Part(t, disk)
    BY <1>4 DEF Kill
  <2>2. /\ disk' \in Disks /\ disk'.installed["user"]["Aax"] = Nothing
        /\ \A u \in DOMAIN status : status[u] = "ok" => Achieved(u, disk')
    BY <1>1, <2>1, DiskStep
  <2>3. QED
    BY <1>1, <2>1, <2>2, Stands
<1>5. ASSUME NEW r \in Requests, Start(r)
      PROVE  IInv'
  BY <1>5, StartStep
<1>6. ASSUME NEW t \in Turn, Skip(t)
      PROVE  IInv'
  <2>1. /\ IsCutOff(t) /\ status' = [status EXCEPT ![t] = "skipped"]
        /\ UNCHANGED <<src, meta, disk, req, since, phase>>
    BY <1>6 DEF Skip
  <2>2. phase = "run"
    BY TurnFacts
  <2>3. QED
    BY <1>1, <2>1, <2>2, Settles
<1>7. ASSUME NEW t \in Turn, Do(t)
      PROVE  IInv'
  <2>1. /\ ~IsCutOff(t) /\ disk' \in Full(t, disk) /\ status' = [status EXCEPT ![t] = "ok"]
        /\ UNCHANGED <<src, meta, req, since, phase>>
    BY <1>7 DEF Do
  <2>2. /\ disk' \in Disks /\ disk'.installed["user"]["Aax"] = Nothing
        /\ \A u \in DOMAIN status : status[u] = "ok" => Achieved(u, disk')
    BY <2>1, DiskStep
  <2>3. /\ t \in Tasks /\ Belongs({t}, req.cmd) /\ req \in Requests /\ phase = "run"
        /\ since.meta \in Metas
    BY TurnFacts
  <2>4. since.src \in Nat /\ since.src <= src
    BY DEF IInv, TypeOK
  <2>5. Ready(t, disk)
    BY <2>1, ReadyNow
  <2>6. Achieved(t, disk')
    BY <1>1, <2>1, <2>3, <2>4, <2>5, Does
  <2>7. Ordered([status EXCEPT ![t] = "ok"])
    BY <2>1, DoneOrdered
  <2>8. QED
    BY <2>1, <2>2, <2>3, <2>6, <2>7, Settles
<1>8. ASSUME NEW t \in Turn, Fail(t)
      PROVE  IInv'
  <2>1. /\ disk' \in Part(t, disk) /\ status' = [status EXCEPT ![t] = "failed"]
        /\ UNCHANGED <<src, meta, req, since>> /\ phase' \in {"run", "err"}
    BY <1>8 DEF Fail
  <2>2. /\ disk' \in Disks /\ disk'.installed["user"]["Aax"] = Nothing
        /\ \A u \in DOMAIN status : status[u] = "ok" => Achieved(u, disk')
    BY <2>1, DiskStep
  <2>3. QED
    BY <2>1, <2>2, Settles
<1>9. CASE UNCHANGED vars
  <2>1. UNCHANGED <<src, meta, disk, req, since, status, phase>>
    BY <1>9 DEF vars
  <2>2. QED
    BY <1>1, <2>1, Stands
<1>10. QED
  BY <1>2, <1>3, <1>4, <1>5, <1>6, <1>7, <1>8, <1>9 DEF Next

\* The invariant holds whatever is edited, fails or is killed (execute_plan).
THEOREM Invariance == Spec => []IInv
<1>1. Init => IInv
  BY InitInv
<1>2. IInv /\ [Next]_vars => IInv'
  BY NextInv
<1>3. QED
  BY <1>1, <1>2, PTL DEF Spec

-----------------------------------------------------------------------------
(***************************************************************************)
(* What the commands promise.                                              *)
(***************************************************************************)
LEMMA PlanOf ==
  ASSUME IInv, status # << >>
  PROVE  /\ Closed(DOMAIN status) /\ req \in Requests /\ since.meta \in Metas
         /\ DOMAIN status = Nodes(req, since.meta)
<1>1. DOMAIN status = Nodes(req, since.meta) /\ phase # "none"
  BY DEF IInv, PlanKept
<1>2. req \in Requests /\ since.meta \in Metas
  BY <1>1 DEF IInv, TypeOK
<1>3. QED
  BY <1>1, <1>2, NodesProps

LEMMA OkFacts ==
  ASSUME IInv, NEW t, Is(t, "ok")
  PROVE  /\ Closed(DOMAIN status) /\ req \in Requests /\ since.meta \in Metas
         /\ DOMAIN status = Nodes(req, since.meta)
         /\ OkIn(status, t) /\ Achieved(t, disk)
<1>1. OkIn(status, t)
  BY DEF Is, OkIn
<1>2. t \in DOMAIN status
  BY DEF Is
<1>3. status # << >>
  BY <1>2
<1>4. Achieved(t, disk)
  BY <1>2 DEF Is, IInv, Kept
<1>5. QED
  BY <1>1, <1>3, <1>4, PlanOf

LEMMA Installs == IInv => InstallsThisBuild
<1> SUFFICES ASSUME IInv
             PROVE  InstallsThisBuild
  OBVIOUS
<1>1. ASSUME NEW T \in PluginFormats, Is(<<"install", T>>, "ok"), Knows(T)
      PROVE  There(Destination(req.scope, T), T, disk) >= since.src
  <2>1. Achieved(<<"install", T>>, disk)
    BY <1>1, OkFacts
  <2>2. QED
    BY <1>1, <2>1 DEF Achieved, Told, Knows
<1>2. ASSUME Is(<<"launch", "Standalone">>, "ok")
      PROVE  \A n \in NamesOf("Standalone", since.meta) \cap Writes("Standalone", disk) :
               disk.bundle["Standalone"][n] >= since.src
  <2>1. Closed(DOMAIN status) /\ OkIn(status, <<"launch", "Standalone">>) /\ Ordered(status)
    BY <1>2, OkFacts DEF IInv
  <2>2. OkIn(status, <<"build", "Standalone">>)
    BY <2>1, Below
  <2>3. Achieved(<<"build", "Standalone">>, disk)
    BY <2>2 DEF OkIn, IInv, Kept
  <2>4. "Standalone" \in Targets
    BY DEF Targets
  <2>5. QED
    BY <2>3, <2>4 DEF Achieved
<1>3. QED
  BY <1>1, <1>2 DEF InstallsThisBuild

\* An installation that succeeds is of this command's sources, whole and in its
\* scope, and so is the standalone a launch has opened, wherever the names in the
\* cmake cache are the present manifest's.
THEOREM Installation == Spec => []InstallsThisBuild
BY Invariance, Installs, PTL

\* Only what the command resolves to is validated.
LEMMA Validated ==
  ASSUME NEW r \in Requests, NEW m \in Metas, NEW T \in PluginFormats,
         <<"validate", T>> \in Nodes(r, m)
  PROVE  T \in Resolve(r, m)
<1> DEFINE t == <<"validate", T>>
<1>1. t \notin Making(Resolve(r, m)) /\ t \notin Making(Resolve(r, m) \cup {"Clap"})
  BY DEF Making, Each
<1>2. r.cmd \in {"build", "install", "uninstall", "validate", "clean", "launch"}
  BY RequestType
<1>3. r.cmd = "validate"
  BY NodesProps DEF Belongs
<1>4. t \in Each("validate", Resolve(r, m))
  <2>1. t \in Making(Resolve(r, m) \cup {"Clap"}) \cup Each("validate", Resolve(r, m))
                 \cup {<<"rules", "all">>}
                 \cup Each("install for validation", Resolve(r, m) \cap {"Au"})
    BY <1>3 DEF Nodes
  <2>2. t \notin Each("install for validation", Resolve(r, m) \cap {"Au"})
    BY DEF Each
  <2>3. QED
    BY <1>1, <2>1, <2>2
<1>5. QED
  BY <1>4 DEF Each

LEMMA Validates == IInv => ValidatesThisBuild
<1> SUFFICES ASSUME IInv, NEW T \in PluginFormats, Is(<<"validate", T>>, "ok")
             PROVE  /\ Built("Clap", disk) >= since.src
                    /\ RulesPass(Judged(disk), {T})
                    /\ T = "Au" => There("system", T, disk) = Absent
                    /\ T # "Au" => disk.tool[T] = "ready"
                    /\ Knows(T) => CASE T = "Au"  -> There("user", T, disk) >= since.src
                                      [] T = "Aax" -> disk.passed >= since.src
                                      [] OTHER     -> Built(T, disk) >= since.src
  BY DEF ValidatesThisBuild
<1>1. /\ Closed(DOMAIN status) /\ Ordered(status) /\ OkIn(status, <<"validate", T>>)
      /\ Achieved(<<"validate", T>>, disk)
  BY OkFacts DEF IInv
<1>2. ASSUME NEW u, OkIn(status, u)
      PROVE  Achieved(u, disk)
  BY <1>2 DEF OkIn, IInv, Kept
<1>3. /\ OkIn(status, <<"rules", "all">>) /\ OkIn(status, <<"build", T>>)
      /\ OkIn(status, <<"build", "Clap">>)
      /\ T = "Au" => OkIn(status, <<"install for validation", "Au">>)
  BY <1>1, Below
<1>4. ASSUME NEW U \in PluginFormats, OkIn(status, <<"build", U>>), Told(U, disk)
      PROVE  Built(U, disk) >= since.src
  <2>1. U \in Targets /\ NamesOf(U, since.meta) = {BundleName(since.meta)}
    BY OkFacts, NameFacts DEF Targets
  <2>2. QED
    BY <1>2, <1>4, <2>1 DEF Achieved, Told, Built
<1>5. Built("Clap", disk) >= since.src
  <2>1. "Clap" \in PluginFormats /\ Told("Clap", disk)
    BY DEF PluginFormats, Told, Writes
  <2>2. QED
    BY <1>3, <1>4, <2>1
<1>6. RulesPass(Judged(disk), {T})
  <2>1. Achieved(<<"rules", "all">>, disk)
    BY <1>2, <1>3
  <2>2. RulesPass(Judged(disk), Resolve(req, since.meta) \cap PluginFormats)
    BY <2>1 DEF Achieved
  <2>3. T \in Resolve(req, since.meta)
    BY OkFacts, Validated DEF Is
  <2>4. QED
    BY <2>2, <2>3, RulesMonotone
<1>7. Knows(T) => Built(T, disk) >= since.src
  BY <1>3, <1>4 DEF Knows, Told
<1>8. T = "Au" => /\ Knows(T) => There("user", T, disk) >= since.src
                  /\ There("system", T, disk) = Absent
  BY <1>1, <1>2, <1>3 DEF Achieved, Knows, Told
<1>9. T # "Au" => disk.tool[T] = "ready"
  BY <1>1 DEF Achieved
<1>10. T = "Aax" /\ Knows(T) => disk.passed >= since.src
  BY <1>1 DEF Achieved, Knows, Told
<1>11. QED
  BY <1>5, <1>6, <1>7, <1>8, <1>9, <1>10

\* What a validation that passes has judged is this command's build, for every
\* format: by the rules, by auval with nothing of its name in its way, by DTT on
\* this bundle; with the same exception.
THEOREM Validation == Spec => []ValidatesThisBuild
BY Invariance, Validates, PTL

LEMMA Uninstalls == IInv => UninstallLeavesNone
<1> SUFFICES ASSUME IInv, phase = "ok", req.cmd = "uninstall", req.scope = "all", ~req.dry,
                    NEW T \in Resolve(req, since.meta), NEW s \in Scopes
             PROVE  There(s, T, disk) = Absent
  BY DEF UninstallLeavesNone
<1>1. DOMAIN status = Nodes(req, since.meta) /\ req \in Requests /\ since.meta \in Metas
  BY DEF IInv, PlanKept, TypeOK
<1>2. T \in PluginFormats
  BY <1>1, ResolveType
<1>3. <<"uninstall", T>> \in DOMAIN status
  BY <1>1 DEF Nodes, Each
<1>4. Achieved(<<"uninstall", T>>, disk)
  BY <1>3 DEF IInv, Blamed, Kept
<1>5. \A x \in UninstallScopes("all", T) : There(x, T, disk) = Absent
  BY <1>2, <1>4 DEF Achieved
<1>6. CASE s \in UninstallScopes("all", T)
  BY <1>5, <1>6
<1>7. CASE s \notin UninstallScopes("all", T)
  <2>1. T = "Aax" /\ s = "user"
    BY <1>7 DEF UninstallScopes, Scopes
  <2>2. BundleName(since.meta) \in Names
    BY <1>1, NameFacts
  <2>3. QED
    BY <2>1, <2>2, NothingThere DEF IInv, NoUsersAax, There
<1>8. QED
  BY <1>6, <1>7

\* uninstall --scope=all leaves nothing of its targets under the present
\* manifest's name, in any scope, whatever torn copies it met.
THEOREM Uninstallation == Spec => []UninstallLeavesNone
BY Invariance, Uninstalls, PTL

-----------------------------------------------------------------------------
(***************************************************************************)
(* What a failure costs, from one task to the next.                        *)
(***************************************************************************)

\* A task is dealt with after all it waits for, and skipped exactly when one of
\* them has failed or been skipped.
Dealt ==
  \A t \in DOMAIN status : status[t] # "planned" =>
    /\ \A u \in DependsOn(t) : status[u] # "planned"
    /\ status[t] = "skipped" <=> IsCutOff(t)

\* Without --continue-on-error nothing follows a failure, and there is one at
\* most; with it, or with no failure, no task is left over.
Stopped ==
  /\ phase = "run" /\ ~req.continues => \A t \in DOMAIN status : status[t] # "failed"
  /\ \A t, u \in DOMAIN status :
       status[t] = "failed" /\ status[u] = "failed" => t = u \/ req.continues
  /\ \A t \in DOMAIN status : status[t] = "skipped" => req.continues
  /\ Ended =>
       /\ phase = "ok" <=> \A t \in DOMAIN status : status[t] # "failed"
       /\ phase = "ok" \/ req.continues => \A t \in DOMAIN status : status[t] # "planned"

Contained == Dealt /\ Stopped

LEMMA TurnStatus ==
  ASSUME IInv, NEW t \in Turn, NEW x, status' = [status EXCEPT ![t] = x]
  PROVE  /\ t \in DOMAIN status /\ status[t] = "planned" /\ DOMAIN status' = DOMAIN status
         /\ status'[t] = x /\ \A u \in DOMAIN status : u # t => status'[u] = status[u]
<1>1. t \in DOMAIN status /\ status[t] = "planned"
  BY TurnFacts
<1>2. status \in [DOMAIN status -> Statuses]
  BY DEF IInv, TypeOK
<1>3. QED
  BY <1>1, <1>2

LEMMA DealtStep ==
  ASSUME IInv, Dealt, NEW t \in Turn, NEW x \in {"ok", "failed", "skipped"},
         status' = [status EXCEPT ![t] = x], x = "skipped" <=> IsCutOff(t)
  PROVE  Dealt'
<1>1. /\ t \in DOMAIN status /\ status[t] = "planned" /\ DOMAIN status' = DOMAIN status
      /\ status'[t] = x /\ \A u \in DOMAIN status : u # t => status'[u] = status[u]
  BY TurnStatus
<1>2. SUFFICES ASSUME NEW v \in DOMAIN status, status'[v] # "planned"
               PROVE  /\ \A u \in DependsOn(v) : status'[u] # "planned"
                      /\ status'[v] = "skipped" <=> \E u \in DependsOn(v) : status'[u] \in {"failed", "skipped"}
  BY <1>1 DEF Dealt, IsCutOff, DependsOn
<1>3. DependsOn(v) \subseteq DOMAIN status
  BY DEF DependsOn
<1>4. \A u \in DependsOn(v) : status[u] # "planned"
  <2>1. CASE v = t
    BY <2>1, TurnFacts
  <2>2. CASE v # t
    BY <1>1, <1>2, <2>2 DEF Dealt
  <2>3. QED
    BY <2>1, <2>2
<1>5. \A u \in DependsOn(v) : status'[u] = status[u]
  BY <1>1, <1>3, <1>4
<1>6. status'[v] = "skipped" <=> IsCutOff(v)
  <2>1. CASE v = t
    BY <1>1, <2>1
  <2>2. CASE v # t
    BY <1>1, <1>2, <2>2 DEF Dealt
  <2>3. QED
    BY <2>1, <2>2
<1>7. QED
  BY <1>4, <1>5, <1>6 DEF IsCutOff

LEMMA ContainedInit == Init => Contained
<1> SUFFICES ASSUME Init
             PROVE  Contained
  OBVIOUS
<1>1. DOMAIN status = {} /\ phase = "none"
  BY DEF Init
<1>2. QED
  BY <1>1 DEF Contained, Dealt, Stopped, Ended

LEMMA ContainedStep == IInv /\ Contained /\ [Next]_vars => Contained'
<1> SUFFICES ASSUME IInv, Dealt, Stopped, [Next]_vars
             PROVE  Dealt' /\ Stopped'
  BY DEF Contained
<1>1. status \in [DOMAIN status -> Statuses] /\ phase \in {"none", "run", "ok", "err", "killed"}
  BY DEF IInv, TypeOK
<1>2. CASE Edit \/ UNCHANGED vars
  <2>1. UNCHANGED <<req, status, phase>>
    BY <1>2 DEF Edit, vars
  <2>2. QED
    BY <2>1 DEF Dealt, Stopped, Ended, IsCutOff, DependsOn
<1>3. CASE Finish
  <2>1. /\ phase = "run" /\ Planned = {} /\ UNCHANGED <<req, status>>
        /\ phase' = IF \E t \in DOMAIN status : status[t] = "failed" THEN "err" ELSE "ok"
    BY <1>3 DEF Finish
  <2>2. Dealt'
    BY <2>1 DEF Dealt, IsCutOff, DependsOn
  <2>3. \A t \in DOMAIN status : status[t] # "planned"
    BY <2>1 DEF Planned
  <2>4. Stopped'
    BY <2>1, <2>3 DEF Stopped, Ended
  <2>5. QED
    BY <2>2, <2>4
<1>4. CASE Kill
  <2>1. phase = "run" /\ phase' = "killed" /\ UNCHANGED <<req, status>>
    BY <1>4 DEF Kill
  <2>2. Dealt'
    BY <2>1 DEF Dealt, IsCutOff, DependsOn
  <2>3. Stopped'
    BY <2>1 DEF Stopped, Ended
  <2>4. QED
    BY <2>2, <2>3
<1>5. ASSUME NEW r \in Requests, Start(r)
      PROVE  Dealt' /\ Stopped'
  <2>1. \/ status' = << >>
        \/ status' = [t \in Nodes(r, meta) |-> "planned"] /\ phase' = "run"
    BY <1>5 DEF Start
  <2>2. \A t \in DOMAIN status' : status'[t] = "planned"
    BY <2>1
  <2>3. ~Ended'
    BY <2>1 DEF Ended
  <2>4. QED
    BY <2>2, <2>3 DEF Dealt, Stopped
<1>6. ASSUME NEW t \in Turn, Skip(t) \/ Do(t)
      PROVE  Dealt' /\ Stopped'
  <2>1. PICK x \in {"ok", "skipped"} :
          status' = [status EXCEPT ![t] = x] /\ (x = "skipped" <=> IsCutOff(t))
    BY <1>6 DEF Skip, Do
  <2>2. UNCHANGED <<req, phase>> /\ phase = "run"
    BY <1>6, TurnFacts DEF Skip, Do
  <2>3. Dealt'
    BY <2>1, DealtStep
  <2>4. \A u \in DOMAIN status' : status'[u] = "failed" => u \in DOMAIN status /\ status[u] = "failed"
    BY <2>1, TurnStatus
  <2>5. ASSUME NEW u \in DOMAIN status', status'[u] = "skipped"
        PROVE  req.continues
    <3>1. CASE u = t
      <4>1. IsCutOff(t)
        BY <2>1, <2>5, <3>1, TurnStatus
      <4>2. PICK d \in DOMAIN status : status[d] \in {"failed", "skipped"}
        BY <4>1 DEF IsCutOff, DependsOn
      <4>3. QED
        BY <2>2, <4>2 DEF Stopped
    <3>2. CASE u # t
      BY <2>1, <2>5, <3>2, TurnStatus DEF Stopped
    <3>3. QED
      BY <3>1, <3>2
  <2>6. Stopped'
    BY <2>2, <2>4, <2>5 DEF Stopped, Ended
  <2>7. QED
    BY <2>3, <2>6
<1>7. ASSUME NEW t \in Turn, Fail(t)
      PROVE  Dealt' /\ Stopped'
  <2>1. /\ ~IsCutOff(t) /\ status' = [status EXCEPT ![t] = "failed"] /\ req' = req
        /\ phase' = IF req.continues /\ req.cmd # "clean" THEN "run" ELSE "err"
    BY <1>7 DEF Fail
  <2>2. Dealt'
    BY <2>1, DealtStep
  <2>3. /\ phase = "run" /\ req \in Requests
    BY TurnFacts
  <2>4. phase' = IF req.continues THEN "run" ELSE "err"
    BY <2>1, <2>3, RequestType
  <2>5. /\ t \in DOMAIN status' /\ status'[t] = "failed"
        /\ \A u \in DOMAIN status' : u # t => u \in DOMAIN status /\ status'[u] = status[u]
    BY <2>1, TurnStatus
  <2>6. ~req.continues => \A u \in DOMAIN status' : status'[u] = "failed" => u = t
    BY <2>3, <2>5 DEF Stopped
  <2>7. Stopped'
    BY <2>1, <2>4, <2>5, <2>6 DEF Stopped, Ended
  <2>8. QED
    BY <2>2, <2>7
<1>8. QED
  BY <1>2, <1>3, <1>4, <1>5, <1>6, <1>7 DEF Next

\* A failure costs no task that does not wait for it, and with
\* --continue-on-error none is lost in the order (execute_plan).
THEOREM FailuresAreContained == Spec => []Contained
<1>1. Init => Contained
  BY ContainedInit
<1>2. IInv /\ Contained /\ [Next]_vars => Contained'
  BY ContainedStep
<1>3. QED
  BY <1>1, <1>2, Invariance, PTL DEF Spec

-----------------------------------------------------------------------------
(***************************************************************************)
(* What a failure costs, however far down.  Fall is one of the many sets a *)
(* recursive definition could name: that it is the one its definition says *)
(* takes an orbit of With, which exists since a least number without one   *)
(* would not.  Down the graph the proofs go by the ranks of the kinds of   *)
(* tasks, which every edge climbs.                                         *)
(***************************************************************************)

\* Every set of numbers has a least one.
LEMMA Least ==
  ASSUME NEW S, S \subseteq Nat, S # {}
  PROVE  \E n \in S : \A m \in S : n <= m
<1> DEFINE R == OpToRel(<, Nat)
<1>1. IsWellFoundedOn(R, Nat)
  BY NatLessThanWellFounded
<1>2. \A x, y \in Nat : y < x => <<y, x>> \in R
  BY DEF OpToRel
<1> HIDE DEF R
<1>3. PICK n \in S : \A m \in S : ~ (<<m, n>> \in R)
  BY <1>1, WFMin
<1>4. ASSUME NEW m \in S
      PROVE  n <= m
  <2>1. m \in Nat /\ n \in Nat /\ ~ (m < n)
    BY <1>2, <1>3
  <2>2. QED
    BY <2>1
<1>5. QED
  BY <1>4

\* f lists what G, applied again and again, makes of A.
Orbit(f, P, A, G, n) ==
  f \in [0..n -> P] /\ f[0] = A /\ \A k \in 1..n : f[k] = G[f[k - 1]]

\* A function can be applied as often as one likes.
LEMMA Iterates ==
  ASSUME NEW P, NEW A \in P, NEW G \in [P -> P], NEW n \in Nat
  PROVE  \E f : Orbit(f, P, A, G, n)
<1> DEFINE Iterated(m, f) == f[0] = A /\ \A k \in 1..m : f[k] = G[f[k - 1]]
           Bad == {m \in Nat : ~ \E f \in [0..m -> P] : Iterated(m, f)}
<1>1. SUFFICES ASSUME Bad # {}
               PROVE  FALSE
  BY DEF Bad, Orbit
<1>2. PICK m \in Bad : \A x \in Bad : m <= x
  <2>1. Bad \subseteq Nat
    BY DEF Bad
  <2> HIDE DEF Bad
  <2>2. QED
    BY <1>1, <2>1, Least
<1>3. m \in Nat /\ ~ \E f \in [0..m -> P] : Iterated(m, f)
  BY DEF Bad
<1>4. CASE m = 0
  <2> DEFINE f == [k \in 0..0 |-> A]
  <2>1. f \in [0..0 -> P] /\ f[0] = A
    OBVIOUS
  <2>2. Iterated(0, f)
    BY <2>1
  <2> HIDE DEF f
  <2>3. QED
    BY <1>3, <1>4, <2>1, <2>2
<1>5. CASE m # 0
  <2>1. m - 1 \in Nat /\ m - 1 \notin Bad
    <3>1. m - 1 \in Nat /\ ~ (m <= m - 1)
      BY <1>3, <1>5
    <3> HIDE DEF Bad
    <3>2. QED
      BY <1>2, <3>1
  <2>2. PICK f \in [0..m - 1 -> P] : Iterated(m - 1, f)
    BY <2>1 DEF Bad
  <2> DEFINE g == [k \in 0..m |-> IF k = m THEN G[f[m - 1]] ELSE f[k]]
  <2>3. m - 1 \in 0..m - 1
    BY <2>1
  <2>4. g \in [0..m -> P]
    BY <1>3, <1>5, <2>3
  <2>5. g[0] = A
    BY <1>3, <1>5, <2>2
  <2>6. ASSUME NEW k \in 1..m
        PROVE  g[k] = G[g[k - 1]]
    <3>1. k - 1 \in 0..m - 1 /\ k - 1 # m /\ k \in 0..m
      BY <1>3
    <3>2. g[k - 1] = f[k - 1]
      BY <3>1, <1>3
    <3>3. CASE k = m
      BY <3>1, <3>2, <3>3
    <3>4. CASE k # m
      <4>1. k \in 1..m - 1
        BY <1>3, <3>4
      <4>2. g[k] = f[k]
        BY <3>1, <3>4
      <4>3. QED
        BY <2>2, <3>2, <4>1, <4>2
    <3>5. QED
      BY <3>3, <3>4
  <2>7. QED
    BY <1>3, <2>4, <2>5, <2>6
<1>6. QED
  BY <1>4, <1>5

\* Fall is what its definition says.
LEMMA FallFacts ==
  /\ Len(AllTasks) = 31
  /\ Fall[0] = Failed
  /\ \A n \in 1..31 : Fall[n] = With(Fall[n - 1])
  /\ \A n \in 0..31 : Fall[n] \subseteq DOMAIN status
<1> DEFINE D == DOMAIN status
           P == SUBSET D
           G == [S \in P |-> With(S)]
           Body(f) == [n \in 0..Len(AllTasks) |-> IF n = 0 THEN Failed ELSE With(f[n - 1])]
<1>1. Len(AllTasks) = 31
  BY DEF AllTasks
<1>2. Failed \in P
  BY DEF Failed
<1>3. G \in [P -> P]
  BY DEF With
<1>4. PICK f \in [0..31 -> P] : f[0] = Failed /\ \A k \in 1..31 : f[k] = G[f[k - 1]]
  <2> HIDE DEF G, P
  <2>1. 31 \in Nat
    OBVIOUS
  <2>2. \E f : Orbit(f, P, Failed, G, 31)
    BY <1>2, <1>3, <2>1, Iterates
  <2>3. QED
    BY <2>2, Zenon DEF Orbit
<1>5. \A k \in 1..31 : f[k] = With(f[k - 1])
  <2>1. ASSUME NEW k \in 1..31
        PROVE  f[k] = With(f[k - 1])
    <3>1. k - 1 \in 0..31
      OBVIOUS
    <3>2. f[k - 1] \in P
      BY <3>1
    <3>3. QED
      BY <1>4, <3>2
  <2>2. QED
    BY <2>1
<1>6. f = Body(f)
  <2>1. ASSUME NEW n \in 0..31
        PROVE  f[n] = IF n = 0 THEN Failed ELSE With(f[n - 1])
    BY <1>4, <1>5
  <2>2. QED
    BY <1>1, <2>1
<1>7. Fall = CHOOSE x : x = Body(x)
  BY DEF Fall
<1>8. Fall = Body(Fall)
  <2> HIDE DEF Body
  <2>1. QED
    BY <1>6, <1>7
<1>9. Fall[0] = Failed /\ \A n \in 1..31 : Fall[n] = With(Fall[n - 1])
  BY <1>1, <1>8
<1>10. ASSUME NEW n \in 0..31
       PROVE  Fall[n] \subseteq DOMAIN status
  BY <1>1, <1>8, <1>9 DEF Failed, With
<1>11. QED
  BY <1>1, <1>9, <1>10

-----------------------------------------------------------------------------
\* What lies on a fallen task has not been done.
LEMMA FallenUndone ==
  ASSUME Dealt, NEW t \in DOMAIN status, NEW u \in DependsOn(t), u \in DOMAIN status,
         status[u] # "ok", status \in [DOMAIN status -> Statuses]
  PROVE  status[t] \in {"planned", "skipped"}
<1>1. CASE status[t] = "planned"
  BY <1>1
<1>2. CASE status[t] # "planned"
  <2>1. status[u] # "planned" /\ (status[t] = "skipped" <=> IsCutOff(t))
    BY <1>2 DEF Dealt
  <2>2. status[u] \in {"failed", "skipped"}
    BY <2>1 DEF Statuses
  <2>3. QED
    BY <2>1, <2>2 DEF IsCutOff
<1>3. QED
  BY <1>1, <1>2

LEMMA FallSound ==
  ASSUME Dealt, status \in [DOMAIN status -> Statuses], NEW n \in 0..31
  PROVE  \A t \in Fall[n] : status[t] # "ok"
<1> DEFINE Bad == {k \in 0..31 : \E t \in Fall[k] : status[t] = "ok"}
<1>1. SUFFICES ASSUME Bad # {}
               PROVE  FALSE
  BY DEF Bad
<1>2. PICK k \in Bad : \A x \in Bad : k <= x
  <2>1. Bad \subseteq Nat
    BY DEF Bad
  <2> HIDE DEF Bad
  <2>2. QED
    BY <1>1, <2>1, Least
<1>3. k \in 0..31
  BY DEF Bad
<1>4. PICK t \in Fall[k] : status[t] = "ok"
  BY DEF Bad
<1>5. k # 0
  BY <1>4, FallFacts DEF Failed
<1>6. k - 1 \in 0..31 /\ k \in 1..31 /\ k - 1 \notin Bad
  <2>1. k - 1 \in 0..31 /\ k \in 1..31 /\ ~ (k <= k - 1)
    BY <1>3, <1>5
  <2> HIDE DEF Bad
  <2>2. QED
    BY <1>2, <2>1
<1>7. \A u \in Fall[k - 1] : u \in DOMAIN status /\ status[u] # "ok"
  BY <1>6, FallFacts DEF Bad
<1>8. t \in With(Fall[k - 1])
  BY <1>6, FallFacts
<1>9. t \in DOMAIN status /\ DependsOn(t) \cap Fall[k - 1] # {}
  BY <1>4, <1>7, <1>8 DEF With
<1>10. PICK u \in DependsOn(t) : u \in Fall[k - 1]
  BY <1>9
<1>11. status[t] \in {"planned", "skipped"}
  BY <1>7, <1>9, <1>10, FallenUndone
<1>12. QED
  BY <1>4, <1>11

\* How far up in a plan the tasks of a kind are.
Rank(k) ==
  CASE k \in {"clean", "scope", "uninstall"} -> 0
    [] k = "gui"       -> 1
    [] k = "rust"      -> 2
    [] k = "configure" -> 3
    [] k = "build"     -> 4
    [] k \in {"rules", "install", "install for validation", "launch"} -> 5
    [] k = "validate"  -> 6

LEMMA Ranks ==
  /\ Rank("clean") = 0 /\ Rank("scope") = 0 /\ Rank("uninstall") = 0
  /\ Rank("gui") = 1 /\ Rank("rust") = 2 /\ Rank("configure") = 3 /\ Rank("build") = 4
  /\ Rank("rules") = 5 /\ Rank("install") = 5 /\ Rank("launch") = 5
  /\ Rank("validate") = 6
<1>1. Rank("clean") = 0 /\ Rank("scope") = 0 /\ Rank("uninstall") = 0
  BY DEF Rank
<1>2. Rank("gui") = 1 /\ Rank("rust") = 2 /\ Rank("configure") = 3 /\ Rank("build") = 4
  BY DEF Rank
<1>3. Rank("rules") = 5 /\ Rank("install") = 5 /\ Rank("launch") = 5
  BY DEF Rank
<1>4. Rank("validate") = 6
  BY DEF Rank
<1>5. QED
  BY <1>1, <1>2, <1>3, <1>4

LEMMA RankForValidation == Rank("install for validation") = 5
BY Zenon DEF Rank

LEMMA RankType ==
  ASSUME NEW t \in Tasks
  PROVE  Rank(t[1]) \in 0..6
<1> DEFINE In(k) == Rank(k) \in 0..6
<1>1. /\ In("clean") /\ In("gui") /\ In("rules") /\ In("launch") /\ In("rust") /\ In("configure") /\ In("build") /\ In("scope") /\ In("install") /\ In("validate")
      /\ In("uninstall")
  BY Ranks
<1>2. In("install for validation")
  <2>1. 5 \in 0..6
    OBVIOUS
  <2>2. QED
    BY <2>1, RankForValidation, Zenon
<1> HIDE DEF In
<1>3. \A k, x : <<k, x>>[1] = k
  OBVIOUS
<1>4. \A x \in {<<"clean", "all">>, <<"gui", "all">>, <<"rules", "all">>,
                <<"launch", "Standalone">>, <<"install for validation", "Au">>} : In(x[1])
  <2>1. In(<<"clean", "all">>[1]) /\ In(<<"gui", "all">>[1]) /\ In(<<"rules", "all">>[1])
    BY <1>1, <1>3, Zenon
  <2>2. In(<<"launch", "Standalone">>[1]) /\ In(<<"install for validation", "Au">>[1])
    BY <1>1, <1>2, <1>3, Zenon
  <2>3. QED
    BY <2>1, <2>2, Zenon
<1>5. ASSUME NEW k, In(k), NEW S
      PROVE  \A x \in Each(k, S) : In(x[1])
  BY <1>3, <1>5, Zenon DEF Each
<1>6. In(t[1])
  BY <1>1, <1>4, <1>5, Zenon DEF Tasks
<1>7. QED
  BY <1>6 DEF In

\* No task waits for itself, by however long a way.
Climbs(e) == e = <<e[1], e[2]>> /\ Rank(e[1][1]) < Rank(e[2][1])

LEMMA EdgesClimb == \A e \in Edges : Climbs(e)
<1>1. ASSUME NEW k, NEW l, NEW x, NEW y, Rank(k) < Rank(l)
      PROVE  Climbs(<<<<k, x>>, <<l, y>>>>)
  BY <1>1 DEF Climbs
<1>2. /\ Rank("clean") < Rank("gui") /\ Rank("rust") < Rank("build")
      /\ Rank("scope") < Rank("build") /\ Rank("build") < Rank("rules")
      /\ Rank("build") < Rank("launch") /\ Rank("gui") < Rank("rust")
      /\ Rank("rust") < Rank("configure") /\ Rank("scope") < Rank("configure")
      /\ Rank("configure") < Rank("build") /\ Rank("build") < Rank("install")
      /\ Rank("rules") < Rank("validate") /\ Rank("build") < Rank("validate")
  BY Ranks
<1>3. /\ Rank("build") < Rank("install for validation")
      /\ Rank("install for validation") < Rank("validate")
  <2>1. 4 < 5 /\ 5 < 6
    OBVIOUS
  <2>2. Rank("build") = 4 /\ Rank("validate") = 6
    BY Ranks
  <2>3. QED
    BY <2>1, <2>2, RankForValidation, Zenon
<1>4. /\ Climbs(<<<<"clean", "all">>, <<"gui", "all">>>>)
      /\ Climbs(<<<<"rust", "default">>, <<"build", "Clap">>>>)
      /\ Climbs(<<<<"scope", "Clap">>, <<"build", "Clap">>>>)
      /\ Climbs(<<<<"build", "Clap">>, <<"rules", "all">>>>)
      /\ Climbs(<<<<"build", "Au">>, <<"install for validation", "Au">>>>)
      /\ Climbs(<<<<"install for validation", "Au">>, <<"validate", "Au">>>>)
      /\ Climbs(<<<<"build", "Standalone">>, <<"launch", "Standalone">>>>)
  BY <1>1, <1>2, <1>3, Zenon
<1>5. /\ \A b : Climbs(<<<<"gui", "all">>, <<"rust", b>>>>)
      /\ \A w : Climbs(<<<<"rust", RustOf(w)>>, <<"configure", w>>>>)
  BY <1>1, <1>2, Zenon
<1>6. \A T : /\ Climbs(<<<<"scope", T>>, <<"configure", Wrapper(T)>>>>)
             /\ Climbs(<<<<"configure", Wrapper(T)>>, <<"build", T>>>>)
             /\ Climbs(<<<<"build", T>>, <<"install", T>>>>)
             /\ Climbs(<<<<"rules", "all">>, <<"validate", T>>>>)
             /\ Climbs(<<<<"build", T>>, <<"validate", T>>>>)
  BY <1>1, <1>2, Zenon
<1>7. QED
  BY <1>4, <1>5, <1>6, Zenon DEF Edges

LEMMA NeedsBelow ==
  ASSUME NEW t \in Tasks, NEW u \in Needs[t]
  PROVE  Rank(u[1]) < Rank(t[1])
<1>1. t \in ToSet(AllTasks)
  BY Numbered
<1>2. Needs[t] = {e[1] : e \in {x \in Edges : x[2] = t}}
  BY <1>1 DEF Needs
<1>3. PICK e \in Edges : e[2] = t /\ e[1] = u
  BY <1>2
<1>4. QED
  BY <1>3, EdgesClimb DEF Climbs

\* What has failed, or been skipped for it, is among the fallen.
LEMMA FallComplete ==
  ASSUME Dealt, DOMAIN status \subseteq Tasks, NEW t \in DOMAIN status,
         status[t] \in {"failed", "skipped"}
  PROVE  t \in Fall[31]
<1> DEFINE Fallen(n) ==
             \A u \in DOMAIN status :
               (status[u] = "failed" \/ (status[u] = "skipped" /\ Rank(u[1]) <= n)) => u \in Fall[n]
           Bad == {n \in 0..31 : ~ Fallen(n)}
<1>1. ASSUME Bad # {}
      PROVE  FALSE
  <2>1. PICK n \in Bad : \A x \in Bad : n <= x
    <3>1. Bad \subseteq Nat
      BY DEF Bad
    <3> HIDE DEF Bad
    <3>2. QED
      BY <1>1, <3>1, Least
  <2>2. n \in 0..31 /\ ~ Fallen(n)
    BY DEF Bad
  <2>3. PICK u \in DOMAIN status :
          /\ status[u] = "failed" \/ (status[u] = "skipped" /\ Rank(u[1]) <= n)
          /\ u \notin Fall[n]
    BY <2>2
  <2>4. u \in Tasks /\ Rank(u[1]) \in 0..6
    BY RankType
  <2>5. status[u] = "skipped" => \E d \in Needs[u] \cap DOMAIN status : status[d] \in {"failed", "skipped"}
    BY <2>3 DEF Dealt, IsCutOff, DependsOn
  <2>6. \A d \in Needs[u] \cap DOMAIN status : Rank(d[1]) \in 0..6 /\ Rank(d[1]) < Rank(u[1])
    <3>1. ASSUME NEW d \in Needs[u], d \in DOMAIN status
          PROVE  Rank(d[1]) \in 0..6 /\ Rank(d[1]) < Rank(u[1])
      BY <2>4, <3>1, NeedsBelow, RankType
    <3>2. QED
      BY <3>1
  <2>7. CASE n = 0
    <3>1. status[u] = "failed"
      BY <2>3, <2>4, <2>5, <2>6, <2>7
    <3>2. QED
      BY <2>3, <2>7, <3>1, FallFacts DEF Failed
  <2>8. CASE n # 0
    <3>1. n - 1 \in 0..31 /\ n \in 1..31 /\ ~ (n <= n - 1)
      BY <2>2, <2>8
    <3>2. Fallen(n - 1)
      <4>1. n - 1 \notin Bad
        <5> HIDE DEF Bad
        <5>1. QED
          BY <2>1, <3>1
      <4>2. QED
        BY <3>1, <4>1
    <3>3. Fall[n] = With(Fall[n - 1])
      BY <3>1, FallFacts
    <3>4. CASE status[u] = "failed"
      <4>1. u \in Fall[n - 1]
        BY <3>2, <3>4
      <4>2. QED
        BY <2>3, <3>3, <4>1 DEF With
    <3>5. CASE status[u] = "skipped"
      <4>1. PICK d \in Needs[u] \cap DOMAIN status : status[d] \in {"failed", "skipped"}
        BY <2>5, <3>5
      <4>2. Rank(d[1]) \in 0..6 /\ Rank(d[1]) < Rank(u[1]) /\ Rank(u[1]) <= n
        BY <2>3, <2>6, <3>5
      <4>3. Rank(d[1]) <= n - 1
        BY <2>2, <2>4, <4>2
      <4>4. d \in Fall[n - 1]
        BY <3>2, <4>1, <4>3
      <4>5. d \in DependsOn(u)
        BY <4>1 DEF DependsOn
      <4>6. QED
        BY <2>3, <3>3, <4>4, <4>5 DEF With
    <3>6. QED
      BY <2>3, <3>4, <3>5
  <2>9. QED
    BY <2>7, <2>8
<1>2. Fallen(31)
  BY <1>1
<1>3. Rank(t[1]) \in 0..6
  BY RankType
<1>4. Rank(t[1]) <= 31
  BY <1>3
<1>5. QED
  BY <1>2, <1>4

LEMMA Isolates == IInv /\ Contained => Isolation
<1> DEFINE fallen == Fall[Len(AllTasks)]
           lost(t) == DependsOn(t) \cap fallen # {}
<1> SUFFICES ASSUME IInv, Dealt, Stopped, Ended
             PROVE  /\ (phase = "ok") = (Failed = {})
                    /\ IF Failed = {} \/ req.continues
                         THEN \A t \in DOMAIN status :
                                status[t] \in (IF lost(t) THEN {"skipped"} ELSE {"ok", "failed"})
                         ELSE /\ Cardinality(Failed) = 1
                              /\ \A t \in DOMAIN status : lost(t) => status[t] = "planned"
  BY DEF Contained, Isolation
<1>1. DOMAIN status \subseteq Tasks /\ status \in [DOMAIN status -> Statuses]
  <2>1. status # << >>
    BY DEF Ended
  <2>2. QED
    BY <2>1, PlanOf, NodesProps DEF IInv, TypeOK
<1>2. fallen = Fall[31]
  BY FallFacts
<1> HIDE DEF fallen
<1>3. ASSUME NEW t \in DOMAIN status, lost(t)
      PROVE  status[t] \in {"planned", "skipped"}
  <2>1. PICK d \in DependsOn(t) : d \in fallen
    BY <1>3
  <2>2. d \in DOMAIN status /\ status[d] # "ok"
    BY <1>1, <1>2, <2>1, FallSound DEF DependsOn
  <2>3. QED
    BY <1>1, <2>1, <2>2, FallenUndone
<1>4. ASSUME NEW t \in DOMAIN status, status[t] = "skipped"
      PROVE  lost(t)
  <2>1. PICK d \in DependsOn(t) : status[d] \in {"failed", "skipped"}
    BY <1>4 DEF Dealt, IsCutOff
  <2>2. d \in DOMAIN status
    BY <2>1 DEF DependsOn
  <2>3. d \in fallen
    BY <1>1, <1>2, <2>1, <2>2, FallComplete
  <2>4. QED
    BY <2>1, <2>3
<1> HIDE DEF lost
<1>5. phase = "ok" <=> Failed = {}
  BY DEF Stopped, Failed
<1>6. CASE Failed = {} \/ req.continues
  <2>1. \A t \in DOMAIN status : status[t] # "planned"
    BY <1>5, <1>6 DEF Stopped
  <2>2. ASSUME NEW t \in DOMAIN status
        PROVE  status[t] \in (IF lost(t) THEN {"skipped"} ELSE {"ok", "failed"})
    BY <1>1, <1>3, <1>4, <2>1 DEF Statuses
  <2>3. QED
    BY <1>5, <1>6, <2>2
<1>7. CASE ~ (Failed = {} \/ req.continues)
  <2>1. PICK t \in DOMAIN status : status[t] = "failed"
    BY <1>7 DEF Failed
  <2>2. Failed = {t}
    BY <1>7, <2>1 DEF Stopped, Failed
  <2>3. Cardinality(Failed) = 1
    BY <2>2, FS_Singleton
  <2>4. \A u \in DOMAIN status : status[u] # "skipped"
    BY <1>7 DEF Stopped
  <2>5. \A u \in DOMAIN status : lost(u) => status[u] = "planned"
    BY <1>3, <2>4
  <2>6. QED
    BY <1>5, <1>7, <2>3, <2>5
<1>8. QED
  BY <1>6, <1>7

\* However the tasks of a plan hang together, a failure costs exactly those that
\* need the failed one, and none is lost in the order (execute_plan).
THEOREM FailuresSpread == Spec => []Isolation
BY Invariance, FailuresAreContained, Isolates, PTL

-----------------------------------------------------------------------------
(***************************************************************************)
(* The order of a plan.                                                    *)
(***************************************************************************)

\* While tasks are planned exactly one has its turn, and it can be carried out,
\* fail or be skipped: ordered() finds no cycle.
OneTurn ==
  phase = "run" =>
    \/ Planned = {}
    \/ \E t \in Turn : /\ Turn = {t}
                       /\ IsCutOff(t) \/ Full(t, disk) # {} \/ Part(t, disk) # {}

LEMMA IndexFacts ==
  ASSUME NEW t \in Tasks
  PROVE  NodeIndex[t] \in 1..31 /\ AllTasks[NodeIndex[t]] = t
<1>1. t \in ToSet(AllTasks)
  BY Numbered
<1>2. \E i \in DOMAIN AllTasks : AllTasks[i] = t
  BY <1>1 DEF ToSet
<1>3. NodeIndex[t] \in DOMAIN AllTasks /\ AllTasks[NodeIndex[t]] = t
  BY <1>1, <1>2 DEF NodeIndex
<1>4. DOMAIN AllTasks = 1..31
  BY DEF AllTasks
<1>5. QED
  BY <1>3, <1>4

\* A task that cannot succeed leaves a disk when it fails.
LEMMA PartLeaves ==
  ASSUME NEW t \in Tasks, NEW d
  PROVE  Part(t, d) # {}
<1>1. CASE t = <<"clean", "all">>
  <2>1. Cleaned(d, {}) \in Part(t, d)
    BY <1>1 DEF Part
  <2>2. QED
    BY <2>1
<1>2. CASE t = <<"gui", "all">>
  <2>1. Part(t, d) = GuiPart(d)
    BY <1>2 DEF Part
  <2>2. QED
    BY <2>1 DEF GuiPart
<1>3. CASE t = <<"rules", "all">>
  <2>1. Part(t, d) = {d}
    BY <1>3, Works
  <2>2. d \in {d}
    OBVIOUS
  <2>3. QED
    BY <2>1, <2>2
<1>4. CASE t = <<"launch", "Standalone">>
  <2>1. Part(t, d) = {d}
    BY <1>4, Works
  <2>2. d \in {d}
    OBVIOUS
  <2>3. QED
    BY <2>1, <2>2
<1>5. CASE t = <<"install for validation", "Au">>
  <2>1. Part(t, d) = InstallPart("Au", "user", d)
    BY <1>5, Works
  <2>2. d \in InstallPart("Au", "user", d)
    BY DEF InstallPart
  <2>3. QED
    BY <2>1, <2>2
<1>6. ASSUME NEW T \in PluginFormats, t = <<"scope", T>>
      PROVE  Part(t, d) # {}
  <2>1. Part(t, d) = {d}
    BY <1>6, Works
  <2>2. d \in {d}
    OBVIOUS
  <2>3. QED
    BY <2>1, <2>2
<1>7. ASSUME NEW T \in PluginFormats, t = <<"install", T>>
      PROVE  Part(t, d) # {}
  <2>1. Part(t, d) = InstallPart(T, Destination(req.scope, T), d)
    BY <1>7, Works
  <2>2. d \in InstallPart(T, Destination(req.scope, T), d)
    BY DEF InstallPart
  <2>3. QED
    BY <2>1, <2>2
<1>8. ASSUME NEW b \in Libs, t = <<"rust", b>>
      PROVE  Part(t, d) # {}
  <2>1. d \in Part(t, d)
    BY <1>8 DEF Part
  <2>2. QED
    BY <2>1
<1>9. ASSUME NEW w \in Wrappers, t = <<"configure", w>>
      PROVE  Part(t, d) # {}
  <2>1. Part(t, d) = ConfigurePart(w, d)
    BY <1>9, Works
  <2>2. d \in ConfigurePart(w, d)
    BY DEF ConfigurePart
  <2>3. QED
    BY <2>1, <2>2
<1>10. ASSUME NEW T \in Targets, t = <<"build", T>>
      PROVE  Part(t, d) # {}
  <2>1. Part(t, d) = BundlePart(T, d)
    BY <1>10, Works
  <2>2. d \in BundlePart(T, d)
    BY DEF BundlePart
  <2>3. QED
    BY <2>1, <2>2
<1>11. ASSUME NEW T \in PluginFormats, t = <<"validate", T>>
      PROVE  Part(t, d) # {}
  <2>1. d \in ToolPart(T, d) /\ d \in DttPart(d)
    BY <1>11 DEF ToolPart, DttPart
  <2>2. Part(t, d) = ValidatePart(T, d)
    BY <1>11, Works
  <2>3. d \in ValidatePart(T, d)
    BY <2>1 DEF ValidatePart
  <2>4. QED
    BY <2>2, <2>3
<1>12. ASSUME NEW T \in PluginFormats, t = <<"uninstall", T>>
      PROVE  Part(t, d) # {}
  <2> DEFINE S == UninstallScopes(req.scope, T)
  <2>1. Part(t, d) = UninstallPart(T, S, d)
    BY <1>12, Works
  <2>2. d \in UninstallPart(T, S, d) \/ Installed(T, {}, Absent, d) \in UninstallPart(T, S, d)
    BY DEF UninstallPart
  <2>3. QED
    BY <2>1, <2>2
<1>13. QED
  BY <1>1, <1>2, <1>3, <1>4, <1>8, <1>9, <1>10, <1>11, <1>12, <1>5, <1>6, <1>7, TaskCases, Zenon

LEMMA TurnExists ==
  ASSUME DOMAIN status \subseteq Tasks, phase = "run", Planned # {}
  PROVE  \E t \in Turn : Turn = {t}
<1> DEFINE ranks == {Rank(t[1]) : t \in Planned}
           ready == {t \in Planned : DependsOn(t) \cap Planned = {}}
           places == {NodeIndex[t] : t \in ready}
<1>1. Planned \subseteq Tasks
  BY DEF Planned
<1>2. ready # {}
  <2>1. ranks \subseteq Nat /\ ranks # {}
    BY <1>1, RankType
  <2> HIDE DEF ranks
  <2>2. PICK n \in ranks : \A m \in ranks : n <= m
    BY <2>1, Least
  <2>3. PICK t \in Planned : Rank(t[1]) = n
    BY <2>2 DEF ranks
  <2>4. ASSUME NEW u \in DependsOn(t), u \in Planned
        PROVE  FALSE
    <3>1. Rank(u[1]) < Rank(t[1])
      BY <1>1, <2>3, <2>4, NeedsBelow DEF DependsOn
    <3>2. Rank(u[1]) \in Nat /\ Rank(t[1]) \in Nat
      BY <1>1, <2>3, <2>4, RankType
    <3>3. Rank(t[1]) <= Rank(u[1])
      BY <2>2, <2>3, <2>4 DEF ranks
    <3>4. QED
      BY <3>1, <3>2, <3>3
  <2>5. QED
    BY <2>3, <2>4
<1>3. ready \subseteq Tasks
  BY <1>1
<1> HIDE DEF ready
<1>4. places \subseteq Nat /\ places # {}
  BY <1>2, <1>3, IndexFacts
<1> HIDE DEF places
<1>5. PICK i \in places : \A j \in places : i <= j
  BY <1>4, Least
<1>6. PICK t \in ready : NodeIndex[t] = i
  BY <1>5 DEF places
<1>7. \A u \in ready : NodeIndex[t] <= NodeIndex[u]
  BY <1>5, <1>6 DEF places
<1>8. Turn = {x \in ready : \A u \in ready : NodeIndex[x] <= NodeIndex[u]}
  BY DEF Turn, ready
<1>9. t \in Turn
  BY <1>7, <1>8
<1>10. ASSUME NEW u \in Turn
       PROVE  u = t
  <2>1. u \in ready /\ NodeIndex[u] <= NodeIndex[t] /\ NodeIndex[t] <= NodeIndex[u]
    BY <1>6, <1>7, <1>8
  <2>2. /\ NodeIndex[u] \in 1..31 /\ AllTasks[NodeIndex[u]] = u
        /\ NodeIndex[t] \in 1..31 /\ AllTasks[NodeIndex[t]] = t
    BY <1>3, <2>1, IndexFacts
  <2>3. NodeIndex[u] = NodeIndex[t]
    BY <2>1, <2>2
  <2>4. QED
    BY <2>2, <2>3
<1>11. QED
  BY <1>9, <1>10

LEMMA Moves == IInv => OneTurn
<1> SUFFICES ASSUME IInv, phase = "run", Planned # {}
             PROVE  \E t \in Turn :
                      /\ Turn = {t}
                      /\ IsCutOff(t) \/ Full(t, disk) # {} \/ Part(t, disk) # {}
  BY DEF OneTurn
<1>1. DOMAIN status \subseteq Tasks
  BY NodesProps DEF IInv, PlanKept, TypeOK
<1>2. PICK t \in Turn : Turn = {t}
  BY <1>1, TurnExists
<1>3. Part(t, disk) # {}
  BY TurnFacts, PartLeaves
<1>4. QED
  BY <1>2, <1>3

\* No plan of any command has a cycle, and the order of its tasks is one
\* (ordered, execute_plan).
THEOREM PlansAreOrdered == Spec => []OneTurn
BY Invariance, Moves, PTL

=============================================================================
