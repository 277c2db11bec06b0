----------------------------- MODULE ProjectFiles -----------------------------
(* The files of a project that `orobox extend` edits, and the environment   *)
(* file `up` generates from one of them. `extend add` plans the writes of a *)
(* recipe over four files, checks them and writes them one by one; `extend  *)
(* image` and `extend compose` create a file and register it in another.    *)
(* The developer edits the same files, another terminal may run the same    *)
(* commands, and any write may fail. What a file holds is reduced to the    *)
(* entries a recipe has an interest in and to whose they are.               *)
EXTENDS Naturals, Sequences, FiniteSets, EnvMerge

CONSTANTS
  Recipes,       \* the recipes; each defines the service of its name
  Configured,    \* those with a config section: a PHP extension and an ini directive
  WithEnv,       \* those with a key of the project .env
  WithFiles,     \* those with a file for docker/<recipe>/
  RecipeKey,     \* the .env key of the recipes that have one
  Disks,         \* the projects the behaviours start from
  Edits,         \* what the developer may write: pairs of a file and its content
  Arguments,     \* the command lines of `extend add`: names, and whether --force is given
  Terminals,
  MaxCommands,   \* bound: commands started
  MaxEdits       \* bound: edits of the developer

ASSUME RecipesAssumption ==
  /\ Configured \subseteq Recipes /\ WithEnv \subseteq Recipes /\ WithFiles \subseteq Recipes
  /\ RecipeKey \in EnvKeys /\ MaxCommands \in Nat /\ MaxEdits \in Nat
  /\ \A a \in Arguments : a.force \in BOOLEAN /\ a.names \in Seq(STRING)

Whose == {"none", "mine", "recipe"}
(* A section of a document: missing, `key:`, a mapping, an alias of one, or *)
(* another value; a list likewise.                                          *)
Nodes == {"absent", "null", "map", "alias", "scalar"}

(* compose: .orobox.compose.yaml, several when it holds several documents.  *)
(* config: what it is accepted by, the image section with its Dockerfile    *)
(* and extension list, php_ini, a mapping or a file of the project's, and   *)
(* the directive there. files: docker/<recipe>/. outside: the files that    *)
(* are symlinks leading out of the project. A missing file holds nothing.   *)
Compose == {c \in [there : BOOLEAN, several : BOOLEAN, services : Nodes, service : [Recipes -> Whose]] :
              c.there \/ \A r \in Recipes : c.service[r] = "none"}
Config ==
  [loads : {"yes", "as YAML", "no"}, image : Nodes, dockerfile : {"none", "default", "own"},
   list : {"absent", "null", "list", "alias"}, extension : Whose,
   ini : {"absent", "null", "map", "file"}, directive : Whose]
Env == {e \in [there : BOOLEAN, lines : Seq([key : EnvKeys, value : Seq(STRING), by : Whose])] :
          e.there \/ e.lines = <<>>}
Dockerfiles == [{"default", "own"} -> {"none", "template", "layer", "other"}]
Linkable == {"compose", "config", "env", "files", "gitignore"}
Disk ==
  [compose : Compose, config : Config, env : Env, files : [Recipes -> Whose], dockerfile : Dockerfiles,
   local : Whose, gitignore : {"none", "plain", "lists", "unreadable"}, outside : SUBSET Linkable]

(* The developer writes files, and makes no symlink of one.                 *)
ASSUME DiskAssumption ==
  /\ Disks \subseteq Disk
  /\ \A e \in Edits : \/ e[1] = "compose" /\ e[2] \in Compose
                      \/ e[1] = "config" /\ e[2] \in Config
                      \/ e[1] = "env" /\ e[2] \in Env
                      \/ e[1] = "files" /\ e[2] \in [Recipes -> Whose]
                      \/ e[1] = "dockerfile" /\ e[2] \in Dockerfiles

VARIABLES
  disk,
  generated,  \* .orobox/.env, <<>> before the first `up`
  proc,       \* per terminal the command it runs, or the last one that it ran
  started, edits

vars == <<disk, generated, proc, started, edits>>

Planned == <<"compose", "config", "env", "files">>   \* the order of the writes
Nothing == <<>>   \* or a sequence of one: the content
NoPlan == [f \in ToSet(Planned) |-> Nothing]

(* A command: the recipes it has still to add and has added, the config as  *)
(* read, the content to write per file and the files to write exclusively.  *)
(* wrote and touched are history: what it wrote for this recipe, and what   *)
(* others wrote since it started.                                           *)
Idle == [at |-> "idle", name |-> "none", force |-> FALSE, names |-> <<>>, added |-> {}, config |-> Nothing,
         plan |-> NoPlan, new |-> {}, wrote |-> {}, touched |-> {}]

Init ==
  /\ disk \in Disks /\ generated = <<>>
  /\ proc = [t \in Terminals |-> Idle] /\ started = 0 /\ edits = 0

At(t, point) == proc[t].at = point
Finished == {"idle", "done", "refused", "failed"}
To(t, point) == [proc[t] EXCEPT !.at = point]
Ends(t, point) == [To(t, point) EXCEPT !.config = Nothing, !.names = <<>>, !.plan = NoPlan, !.new = {}]

(* t goes on as p; with a write of f the others' files are touched, and a   *)
(* command that is over is forgotten.                                       *)
Goes(t, p) == proc' = [proc EXCEPT ![t] = p] /\ UNCHANGED disk
Refuses(t) == Goes(t, Ends(t, "refused"))
Touch(p, f) == IF p.at \in Finished THEN Idle ELSE [p EXCEPT !.touched = @ \cup {f}]
Writes(t, f, p) ==
  proc' = [u \in Terminals |-> IF u = t THEN [p EXCEPT !.wrote = @ \cup {f}] ELSE Touch(proc[u], f)]
Fails(t) == Goes(t, Ends(t, "failed"))   \* an error of the file system

-----------------------------------------------------------------------------
(* The command line. Each recipe counts once, and an unknown name stops     *)
(* before anything is read.                                                 *)

selectRecipes(names) ==
  LET selected[i \in 0 .. Len(names)] ==   \* of the first i names
        IF i = 0 THEN <<>>
        ELSE IF Contains(selected[i - 1], names[i]) THEN selected[i - 1]
        ELSE Append(selected[i - 1], names[i])
  IN IF ToSet(names) \subseteq Recipes THEN selected[Len(names)] ELSE <<>>

Start(t) ==
  /\ proc[t].at \in Finished /\ started < MaxCommands /\ started' = started + 1
  /\ \/ Goes(t, [Idle EXCEPT !.at = "up", !.name = "up"])
     \/ \E name \in {"image", "compose", "local"} : Goes(t, [Idle EXCEPT !.at = "open", !.name = name])
     \/ \E a \in Arguments :
          Goes(t, [Idle EXCEPT !.name = "add", !.force = a.force, !.names = selectRecipes(a.names),
                               !.at = IF selectRecipes(a.names) = <<>> THEN "refused" ELSE "open"])
  /\ UNCHANGED <<generated, edits>>

(* Every subcommand, and every recipe, reads the config first.              *)
openProject(t) ==
  /\ At(t, "open")
  /\ LET next == CASE proc[t].name = "add" -> "compose" [] proc[t].name = "image" -> "dockerfile"
                   [] proc[t].name = "compose" -> "template" [] OTHER -> "check ignore"
     IN Goes(t, [To(t, next) EXCEPT !.config = <<disk.config>>, !.wrote = {}])
  /\ UNCHANGED <<generated, started, edits>>

-----------------------------------------------------------------------------
(* extend add: the plan.                                                    *)

Recipe(t) == Head(proc[t].names)

(* Writing creates what is missing on the way and never follows an alias.   *)
Walkable(node) == node \in {"absent", "null", "map"}
MergeMapping(old, overwrite) == IF old = "none" \/ overwrite THEN "recipe" ELSE old
AppendUnique(old) == IF old = "none" THEN "recipe" ELSE old

(* A file of several documents is refused; reading follows aliases.         *)
Parses(c) == ~c.several
Has(c, service) == c.service[service] # "none"

(* A file is planned only when the edit changes what is in it, a missing    *)
(* file always.                                                             *)
finishYAMLPlan(before, after) == IF after = before THEN Nothing ELSE <<after>>

planRecipeCompose(t) ==
  /\ At(t, "compose")
  /\ LET c == disk.compose  r == Recipe(t) IN
     IF ~Parses(c) \/ (~proc[t].force /\ Has(c, r)) \/ ~Walkable(c.services)
     THEN Refuses(t)
     ELSE Goes(t, [To(t, "config") EXCEPT
            !.new = IF c.there THEN {} ELSE {"compose"},
            !.plan.compose = finishYAMLPlan(c, [c EXCEPT !.there = TRUE, !.services = "map",
                                                  !.service[r] = MergeMapping(@, proc[t].force)])])
  /\ UNCHANGED <<generated, started, edits>>

(* An ini file of the project's is not edited: the directive it lacks is    *)
(* left to the user, and the rest of the section is merged.                 *)
mergeRecipeConfigM(g) ==
  IF g.ini = "file" THEN g   \* mutant: nothing is merged then
  ELSE [g EXCEPT !.image = "map", !.list = "list", !.extension = AppendUnique(@),
                 !.ini = "map", !.directive = MergeMapping(@, FALSE)]
mergeRecipeConfig(g) ==
  LET merged == [g EXCEPT !.image = "map", !.list = "list", !.extension = AppendUnique(@)]
  IN IF g.ini = "file" THEN merged ELSE [merged EXCEPT !.ini = "map", !.directive = MergeMapping(@, FALSE)]

planRecipeConfig(t) ==
  /\ At(t, "config")
  /\ LET g == proc[t].config[1] IN
     IF Recipe(t) \notin Configured THEN Goes(t, To(t, "env"))
     ELSE IF g.loads # "yes" \/ ~Walkable(g.image) \/ g.list = "alias" THEN Refuses(t)
     ELSE Goes(t, [To(t, "env") EXCEPT !.plan.config = finishYAMLPlan(g, mergeRecipeConfig(g))])
  /\ UNCHANGED <<generated, started, edits>>

(* The key is appended when no line assigns it.                             *)
envKeys(lines) == KeysOf(lines)

planRecipeEnv(t) ==
  /\ At(t, "env")
  /\ LET e == disk.env
         after == [there |-> TRUE, lines |-> Append(e.lines, [key |-> RecipeKey, value |-> <<>>, by |-> "recipe"])]
     IN IF Recipe(t) \notin WithEnv \/ RecipeKey \in envKeys(e.lines)
        THEN Goes(t, To(t, "files"))
        ELSE Goes(t, [To(t, "files") EXCEPT !.plan.env = <<after>>,
                        !.new = @ \cup (IF e.there THEN {} ELSE {"env"})])
  /\ UNCHANGED <<generated, started, edits>>

planRecipeFiles(t) ==
  /\ At(t, "files")
  /\ IF Recipe(t) \notin WithFiles \/ disk.files[Recipe(t)] # "none"
     THEN Goes(t, To(t, "check"))
     ELSE Goes(t, [To(t, "check") EXCEPT !.plan.files = <<"recipe">>, !.new = @ \cup {"files"}])
  /\ UNCHANGED <<generated, started, edits>>

-----------------------------------------------------------------------------
(* extend add: the writes. All are checked before the first.                *)

ToWrite(t) == {f \in ToSet(Planned) : proc[t].plan[f] # Nothing}
checkWritableM(targets) == TRUE   \* mutant: each write is checked when it is made
checkWritable(targets) == targets \cap disk.outside = {}

CheckPlan(t) ==
  /\ At(t, "check")
  /\ IF checkWritable(ToWrite(t)) THEN Goes(t, To(t, "write")) ELSE Refuses(t)
  /\ UNCHANGED <<generated, started, edits>>

(* A file planned as new is created exclusively: one that has appeared      *)
(* since is an error.                                                       *)
Exists(t, f) == CASE f = "compose" -> disk.compose.there
                  [] f = "env" -> disk.env.there
                  [] f = "files" -> disk.files[Recipe(t)] # "none"
                  [] OTHER -> TRUE
BlockedM(t, f) == FALSE   \* mutant: O_TRUNC for every file
Blocked(t, f) == f \in proc[t].new /\ Exists(t, f)

NextToWrite(t, f) ==
  \E i \in DOMAIN Planned : Planned[i] = f /\ \A j \in 1 .. i - 1 : Planned[j] \notin ToWrite(t)

writeInsideProject(t) ==
  /\ At(t, "write")
  /\ \E f \in ToWrite(t) : NextToWrite(t, f) /\ LET content == proc[t].plan[f][1] IN
     IF f \in disk.outside THEN Refuses(t)
     ELSE \/ Fails(t)
          \/ /\ ~Blocked(t, f)
             /\ disk' = IF f = "files" THEN [disk EXCEPT !.files[Recipe(t)] = content]
                                       ELSE [disk EXCEPT ![f] = content]
             /\ Writes(t, f, [proc[t] EXCEPT !.plan[f] = Nothing])
  /\ UNCHANGED <<generated, started, edits>>

RecipeAdded(t) ==
  /\ At(t, "write") /\ ToWrite(t) = {}
  /\ LET rest == Tail(proc[t].names)
     IN Goes(t, [Ends(t, IF rest = <<>> THEN "done" ELSE "open") EXCEPT
                   !.added = @ \cup {Recipe(t)}, !.names = rest])
  /\ UNCHANGED <<generated, started, edits>>

-----------------------------------------------------------------------------
(* extend image.                                                            *)

configuredDockerfile(t) == proc[t].config[1].dockerfile
Target(t) == IF configuredDockerfile(t) = "own" THEN "own" ELSE "default"

(* Without a Dockerfile in the config the default path is taken; what is    *)
(* there has to be a layer of Orobox. The edit of the config is prepared    *)
(* and checked before the Dockerfile is written.                            *)
checkAdoptable(content) == content # "other"

ExtendImage(t) ==
  /\ At(t, "dockerfile")
  /\ LET g == proc[t].config[1] IN
     IF \/ g.loads = "no"
        \/ /\ configuredDockerfile(t) = "none"
           /\ ~checkAdoptable(disk.dockerfile["default"]) \/ ~Walkable(g.image) \/ ~checkWritable({"config"})
     THEN Refuses(t)
     ELSE Goes(t, To(t, "template"))
  /\ UNCHANGED <<generated, started, edits>>

WriteDockerfile(t) ==
  /\ At(t, "template") /\ proc[t].name = "image"
  /\ LET next == IF configuredDockerfile(t) = "none" THEN To(t, "register") ELSE Ends(t, "done") IN
     IF disk.dockerfile[Target(t)] # "none" THEN Goes(t, next)
     ELSE IF Target(t) = "default" /\ ~checkWritable({"files"}) THEN Refuses(t)
     ELSE \/ Fails(t)
          \/ disk' = [disk EXCEPT !.dockerfile[Target(t)] = "template"] /\ Writes(t, "dockerfile", next)
  /\ UNCHANGED <<generated, started, edits>>

SetScalar(g) == [g EXCEPT !.image = "map", !.dockerfile = "default"]
RegisterDockerfile(t) ==
  /\ At(t, "register")
  /\ IF ~checkWritable({"config"}) THEN Refuses(t)
     ELSE \/ Fails(t)
          \/ /\ disk' = [disk EXCEPT !.config = SetScalar(proc[t].config[1])]
             /\ Writes(t, "config", Ends(t, "done"))
  /\ UNCHANGED <<generated, started, edits>>

-----------------------------------------------------------------------------
(* extend compose, and with --local the personal override and its entry in  *)
(* .gitignore, which is checked first.                                      *)

CheckIgnore(t) ==
  /\ At(t, "check ignore")
  /\ IF checkWritable({"gitignore"}) THEN Goes(t, To(t, "template")) ELSE Refuses(t)
  /\ UNCHANGED <<generated, started, edits>>

writeTemplateOnce(t) ==
  /\ At(t, "template") /\ proc[t].name = "compose"
  /\ IF disk.compose.there THEN Goes(t, Ends(t, "done"))
     ELSE IF ~checkWritable({"compose"}) THEN Refuses(t)
     ELSE \/ Fails(t)
          \/ /\ disk' = [disk EXCEPT !.compose.there = TRUE, !.compose.services = "map"]
             /\ Writes(t, "compose", Ends(t, "done"))
  /\ UNCHANGED <<generated, started, edits>>

writeLocalOnce(t) ==
  /\ At(t, "template") /\ proc[t].name = "local"
  /\ IF disk.local # "none" THEN Goes(t, To(t, "ignore"))
     ELSE \/ Fails(t)
          \/ disk' = [disk EXCEPT !.local = "recipe"] /\ Writes(t, "local", To(t, "ignore"))
  /\ UNCHANGED <<generated, started, edits>>

ignoreLocalOverride(t) ==
  /\ At(t, "ignore")
  /\ CASE disk.gitignore \in {"none", "lists"} -> Goes(t, Ends(t, "done"))
       [] disk.gitignore = "unreadable" -> Fails(t)
       [] disk.gitignore = "plain" ->
            \/ Fails(t)
            \/ disk' = [disk EXCEPT !.gitignore = "lists"] /\ Writes(t, "gitignore", Ends(t, "done"))
  /\ UNCHANGED <<generated, started, edits>>

-----------------------------------------------------------------------------
(* `up` renders the environment: the template alone without a .env.         *)
writeEnvFile(t) ==
  /\ At(t, "up")
  /\ generated' = IF disk.env.there THEN MergeEnv(Template, parseEnvEntries(disk.env.lines)) ELSE Template
  /\ Goes(t, Ends(t, "done")) /\ UNCHANGED <<started, edits>>

(* The developer writes a file, all of it his own, or removes it.           *)
Edit ==
  /\ edits < MaxEdits /\ edits' = edits + 1
  /\ \E e \in Edits :
       /\ disk[e[1]] # e[2] /\ disk' = [disk EXCEPT ![e[1]] = e[2]]
       /\ proc' = [t \in Terminals |-> Touch(proc[t], e[1])]
  /\ UNCHANGED <<generated, started>>

Next ==
  \/ \E t \in Terminals :
       \/ Start(t) \/ openProject(t)
       \/ planRecipeCompose(t) \/ planRecipeConfig(t) \/ planRecipeEnv(t) \/ planRecipeFiles(t)
       \/ CheckPlan(t) \/ writeInsideProject(t) \/ RecipeAdded(t)
       \/ ExtendImage(t) \/ WriteDockerfile(t) \/ RegisterDockerfile(t)
       \/ CheckIgnore(t) \/ writeTemplateOnce(t) \/ writeLocalOnce(t) \/ ignoreLocalOverride(t)
       \/ writeEnvFile(t)
  \/ Edit

Spec == Init /\ [][Next]_vars

-----------------------------------------------------------------------------
(* Properties.                                                              *)

(* The entries whose value is the project's own, by the file they are in.   *)
LastLine(lines, k) == lines[CHOOSE i \in DOMAIN lines : lines[i].key = k /\ \A j \in DOMAIN lines : lines[j].key = k => j <= i]
Mine(d) ==
  {<<"compose", r>> : r \in {r \in Recipes : d.compose.service[r] = "mine"}}
    \cup {<<"config", x>> : x \in {x \in {"extension", "directive", "dockerfile"} : d.config[x] \in {"mine", "own"}}}
    \cup {<<"env", k, LastLine(d.env.lines, k).value>> :
            k \in {k \in KeysOf(d.env.lines) : LastLine(d.env.lines, k).by = "mine"}}
    \cup {<<"files", r>> : r \in {r \in Recipes : d.files[r] = "mine"}}
    \cup {<<"dockerfile", path, d.dockerfile[path]>> : path \in {path \in {"default", "own"} : d.dockerfile[path] \in {"layer", "other"}}}

HasWritten(t) == proc'[t].wrote \notin {{}, proc[t].wrote}

(* docs/commands.md: "A project value always wins over a recipe value". No  *)
(* command takes an entry of the project away, except the services --force  *)
(* replaces. Where a file was changed by somebody else while the command    *)
(* ran, this holds of the files the command meant to create.                *)
ProjectKeepsItsOwn ==
  [][edits' = edits => \A lost \in Mine(disk) \ Mine(disk') : \E t \in Terminals :
       /\ HasWritten(t)
       /\ \/ proc[t].force /\ lost = <<"compose", Recipe(t)>>
          \/ lost[1] \in proc[t].touched \ proc[t].new]_vars

(* AddRecipe: "a refused recipe leaves the project exactly as it was", and  *)
(* so do the refusals of the other subcommands.                             *)
RefusedChangesNothing == \A t \in Terminals : At(t, "refused") => proc[t].wrote = {}

(* A command that nobody disturbed and that reported success did all of its *)
(* job, whatever an earlier one that failed half-way had left: every part   *)
(* of each recipe is in effect, the config names a Dockerfile that is there *)
(* and, when the command chose it, is a layer, and the personal override is *)
(* ignored by git.                                                          *)
InEffect(r) ==
  /\ disk.compose.services = "map" /\ disk.compose.service[r] = "recipe"
  /\ r \in Configured => disk.config.extension # "none" /\ (disk.config.ini = "file" \/ disk.config.directive # "none")
  /\ r \in WithEnv => RecipeKey \in KeysOf(disk.env.lines)
  /\ r \in WithFiles => disk.files[r] # "none"
LayerIsConfigured(t) ==
  /\ disk.config.dockerfile # "none" /\ disk.dockerfile[disk.config.dockerfile] # "none"
  /\ "config" \in proc[t].wrote => disk.dockerfile[disk.config.dockerfile] # "other"
DoneMeansInEffect == \A t \in Terminals : At(t, "done") /\ proc[t].touched = {} =>
  /\ \A r \in proc[t].added : InEffect(r)
  /\ proc[t].name = "image" => LayerIsConfigured(t)
  /\ proc[t].name = "local" => disk.local # "none" /\ disk.gitignore # "plain"

(* envmerge.go: "The file must mean the same read in order (Symfony Dotenv) *)
(* or whole (compose)", and gives every key the value that follows from the *)
(* project's. Premise: Orderly.                                             *)
Reads(lines, meant) == ReadInOrder(lines) = meant /\ ReadWhole(lines) = meant
EnvMeansTheSame ==
  [][generated' # generated /\ disk.env.there =>
       LET lines == parseEnvEntries(disk.env.lines)
       IN Orderly(Template, lines) => Reads(generated', Meant(Template, lines))]_vars

(* The same of every project file.                                          *)
EnvAlwaysMeansTheSame ==
  [][generated' # generated => ReadInOrder(generated') = ReadWhole(generated')]_vars
=============================================================================
