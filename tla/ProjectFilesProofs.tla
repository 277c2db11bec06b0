------------------------- MODULE ProjectFilesProofs -------------------------
(* What a refusal and what success of an `extend` command mean, for any     *)
(* recipes, projects, edits and command lines, any number of terminals, and *)
(* every write failing or being preceded by somebody else's.                *)
EXTENDS ProjectFiles, TLAPS, WellFoundedInduction

Points == {"idle", "open", "compose", "config", "env", "files", "check", "write", "dockerfile", "template",
           "register", "check ignore", "ignore", "up", "done", "refused", "failed"}
PlannedFiles == {"compose", "config", "env", "files"}
Names == {"none", "add", "image", "compose", "local", "up"}
Written == Linkable \cup {"dockerfile", "local"}
Maybe(S) == {Nothing} \cup {<<x>> : x \in S}
Plans == [compose : Maybe(Compose), config : Maybe(Config), env : Maybe(Env), files : Maybe({"recipe"})]
Commands ==
  [at : Points, name : Names, force : BOOLEAN, names : Seq(Recipes), added : SUBSET Recipes,
   config : Maybe(Config), plan : Plans, new : SUBSET {"compose", "env", "files"},
   wrote : SUBSET Written, touched : SUBSET Written]

TypeOK == disk \in Disk /\ proc \in [Terminals -> Commands]

-----------------------------------------------------------------------------
(* What a command p has behind it, whatever the others do to the disk d.    *)

Planning == {"compose", "config", "env", "files", "check"}

(* The way of each subcommand through the points, and what is not planned   *)
(* yet at each of them.                                                     *)
Routed(p) ==
  /\ p.at \in Planning \cup {"write"} => p.name = "add" /\ p.names # <<>> /\ p.config # Nothing
  /\ p.at = "open" => p.name \in {"add", "image", "compose", "local"} /\ (p.name = "add" => p.names # <<>>)
  /\ p.at \in {"dockerfile", "register"} => p.name = "image" /\ p.config # Nothing
  /\ p.at = "check ignore" => p.name = "local" /\ p.config # Nothing
  /\ p.at = "ignore" => p.name = "local"
  /\ p.at = "template" => p.name \in {"image", "compose", "local"} /\ p.config # Nothing
  /\ p.at \in {"open", "compose"} => p.plan.compose = Nothing
  /\ p.at \in {"open", "compose", "config"} => p.plan.config = Nothing
  /\ p.at \in {"open", "compose", "config", "env"} => p.plan.env = Nothing
  /\ p.at \in {"open", "compose", "config", "env", "files"} => p.plan.files = Nothing
  /\ p.at = "up" => p.name = "up"

(* Nothing is written of a recipe, or by another subcommand, before all is  *)
(* checked.                                                                 *)
Bare(p) ==
  p.at \in Planning \cup {"dockerfile", "template", "check ignore", "refused"} => p.wrote = {}

(* And what has been checked stays as it is.                                *)
Checked(p, d) ==
  /\ p.at = "write" => \A f \in PlannedFiles : p.plan[f] # Nothing => f \notin d.outside
  /\ p.at = "template" /\ p.name = "image" /\ p.config[1].dockerfile = "none" => "config" \notin d.outside
  /\ p.at = "register" => "config" \notin d.outside

Safe(p, d) == Routed(p) /\ Bare(p) /\ Checked(p, d)

-----------------------------------------------------------------------------
(* And what it has achieved when nobody disturbs it: what the recipes it    *)
(* has added put into the files is there, and what the one at hand puts     *)
(* into them is there or planned.                                           *)

ComposeHas(c, r) == c.services = "map" /\ c.service[r] = "recipe"
ConfigHas(g, r) == r \in Configured => g.extension # "none" /\ (g.ini = "file" \/ g.directive # "none")
EnvHas(e, r) == r \in WithEnv => RecipeKey \in KeysOf(e.lines)
FilesHave(files, r) == r \in WithFiles => files[r] # "none"
Holds(d, r) == ComposeHas(d.compose, r) /\ ConfigHas(d.config, r) /\ EnvHas(d.env, r) /\ FilesHave(d.files, r)

AfterPlan(before, plan) == IF plan = Nothing THEN before ELSE plan[1]

Adds(p, d) ==
  LET all == p.added \cup {Head(p.names)} IN
  /\ \A q \in p.added : Holds(d, q)
  /\ p.at \in {"config", "env", "files", "check", "write"} =>
       \A q \in all : ComposeHas(AfterPlan(d.compose, p.plan.compose), q)
  /\ p.at \in {"env", "files", "check", "write"} =>
       \A q \in all : ConfigHas(AfterPlan(d.config, p.plan.config), q)
  /\ p.at \in {"files", "check", "write"} =>
       \A q \in all : EnvHas(AfterPlan(d.env, p.plan.env), q)
  /\ p.at \in {"check", "write"} /\ p.plan.files = Nothing => FilesHave(d.files, Head(p.names))

(* `extend image` and `extend compose --local`.                             *)
Registers(p, d) ==
  /\ p.at = "template" /\ p.name = "image" /\ p.config[1].dockerfile = "none" => d.dockerfile["default"] # "other"
  /\ p.at = "register" => d.dockerfile["default"] \notin {"none", "other"}
  /\ p.at = "done" /\ p.name = "image" =>
       /\ d.config.dockerfile # "none" /\ d.dockerfile[d.config.dockerfile] # "none"
       /\ "config" \in p.wrote => d.dockerfile[d.config.dockerfile] # "other"
  /\ p.at = "ignore" => d.local # "none"
  /\ p.at = "done" /\ p.name = "local" => d.local # "none" /\ d.gitignore # "plain"

(* What was read is what is there.                                          *)
Read(p, d) == p.at \in Planning \cup {"dockerfile", "check ignore", "template", "register"} => p.config = <<d.config>>

Achieves(p, d) == p.touched = {} => Adds(p, d) /\ Registers(p, d) /\ Read(p, d)

Sound(p, d) == Safe(p, d) /\ Achieves(p, d)

IInv == TypeOK /\ \A t \in Terminals : Sound(proc[t], disk)

-----------------------------------------------------------------------------
(* What a step does to the others, and how a command goes on.               *)

LEMMA IdleFacts == Idle \in Commands /\ \A d \in Disk : Sound(Idle, d)
<1>1. ToSet(Planned) = PlannedFiles
  BY DEF ToSet, Planned, PlannedFiles
<1>2. NoPlan \in Plans
  BY <1>1 DEF NoPlan, Plans, Maybe, PlannedFiles
<1>3. Idle \in Commands
  BY <1>2 DEF Idle, Commands, Maybe, Points, Names, Nothing
<1>4. Idle.at = "idle" /\ Idle.name = "none" /\ Idle.added = {}
  BY DEF Idle
<1>5. \A d \in Disk : Sound(Idle, d)
  BY <1>4 DEF Sound, Safe, Routed, Bare, Checked, Achieves, Adds, Registers, Read, Planning
<1>6. QED
  BY <1>3, <1>5

(* Whatever somebody else writes, what a command has checked stands, and    *)
(* what it has achieved is no longer claimed.                               *)
LEMMA TouchSound ==
  ASSUME NEW p \in Commands, NEW d, NEW e \in Disk, Sound(p, d), e.outside = d.outside, NEW f \in Written
  PROVE  Touch(p, f) \in Commands /\ Sound(Touch(p, f), e)
<1>1. CASE p.at \in Finished
  BY <1>1, IdleFacts DEF Touch
<1>2. CASE p.at \notin Finished
  <2> DEFINE q == [p EXCEPT !.touched = @ \cup {f}]
  <2>1. Touch(p, f) = q
    BY <1>2 DEF Touch
  <2>2. q \in Commands /\ q.touched = p.touched \cup {f}
    BY DEF Commands, Written
  <2>3. /\ q.at = p.at /\ q.name = p.name /\ q.names = p.names /\ q.config = p.config
        /\ q.plan = p.plan /\ q.wrote = p.wrote
    BY DEF Commands
  <2> HIDE DEF q
  <2>4. q.touched # {}
    BY <2>2
  <2>5. Sound(q, e)
    BY <2>3, <2>4 DEF Sound, Safe, Routed, Bare, Checked, Achieves
  <2>6. QED
    BY <2>1, <2>2, <2>5
<1>3. QED
  BY <1>1, <1>2

LEMMA GoesKeeps ==
  ASSUME IInv, NEW t \in Terminals, NEW p \in Commands, Sound(p, disk), Goes(t, p)
  PROVE  IInv'
<1>1. disk' = disk /\ proc' \in [Terminals -> Commands]
  BY DEF IInv, TypeOK, Goes
<1>2. \A u \in Terminals : proc'[u] = IF u = t THEN p ELSE proc[u]
  BY DEF IInv, TypeOK, Goes
<1>3. \A u \in Terminals : Sound(proc'[u], disk)
  BY <1>2 DEF IInv
<1>4. QED
  BY <1>1, <1>3 DEF IInv, TypeOK

LEMMA WritesKeeps ==
  ASSUME IInv, NEW t \in Terminals, NEW p \in Commands, NEW f \in Written, Writes(t, f, p),
         disk' \in Disk, disk'.outside = disk.outside,
         Sound([p EXCEPT !.wrote = @ \cup {f}], disk')
  PROVE  IInv'
<1> DEFINE q == [p EXCEPT !.wrote = @ \cup {f}]
<1>1. q \in Commands
  BY DEF Commands, Written
<1>2. proc' = [u \in Terminals |-> IF u = t THEN q ELSE Touch(proc[u], f)]
  BY DEF Writes
<1> HIDE DEF q
<1>3. \A u \in Terminals : Touch(proc[u], f) \in Commands /\ Sound(Touch(proc[u], f), disk')
  BY TouchSound DEF IInv, TypeOK
<1>4. \A u \in Terminals : proc'[u] \in Commands /\ Sound(proc'[u], disk')
  BY <1>1, <1>2, <1>3 DEF q
<1>5. proc' \in [Terminals -> Commands]
  BY <1>2, <1>4
<1>6. QED
  BY <1>4, <1>5 DEF IInv, TypeOK

LEMMA EditKeeps == IInv /\ Edit => IInv'
<1> SUFFICES ASSUME IInv, Edit PROVE IInv'
  OBVIOUS
<1>1. PICK e \in Edits : /\ disk' = [disk EXCEPT ![e[1]] = e[2]]
                         /\ proc' = [t \in Terminals |-> Touch(proc[t], e[1])]
  BY DEF Edit
<1>2. e[1] \in Written
  BY DiskAssumption DEF DiskAssumption, Written, Linkable
<1>3. disk' \in Disk /\ disk'.outside = disk.outside
  BY <1>1, DiskAssumption DEF DiskAssumption, IInv, TypeOK, Disk
<1>4. \A t \in Terminals : Touch(proc[t], e[1]) \in Commands /\ Sound(Touch(proc[t], e[1]), disk')
  BY <1>2, <1>3, TouchSound DEF IInv, TypeOK
<1>5. QED
  BY <1>1, <1>3, <1>4 DEF IInv, TypeOK

(* A command that ends keeps what it has added.                             *)
LEMMA EndsFacts ==
  ASSUME TypeOK, NEW t \in Terminals, NEW point \in {"open", "done", "refused", "failed"}
  PROVE  /\ Ends(t, point) \in Commands /\ Ends(t, point).at = point
         /\ Ends(t, point).name = proc[t].name /\ Ends(t, point).force = proc[t].force
         /\ Ends(t, point).added = proc[t].added /\ Ends(t, point).wrote = proc[t].wrote
         /\ Ends(t, point).touched = proc[t].touched
         /\ Ends(t, point).plan = NoPlan /\ Ends(t, point).names = <<>> /\ Ends(t, point).config = Nothing
<1>1. Idle.plan = NoPlan /\ Idle.plan \in Plans
  BY IdleFacts DEF Idle, Commands
<1>0. <<>> \in Seq(Recipes)
  OBVIOUS
<1>2. proc[t] \in Commands /\ point \in Points /\ Nothing \in Maybe(Config)
  BY Zenon DEF TypeOK, Points, Maybe
<1>3. Ends(t, point) \in Commands
  BY <1>0, <1>1, <1>2 DEF Ends, To, Commands
<1>4. /\ Ends(t, point).at = point
      /\ Ends(t, point).plan = NoPlan /\ Ends(t, point).names = <<>> /\ Ends(t, point).config = Nothing
      /\ Ends(t, point).name = proc[t].name /\ Ends(t, point).force = proc[t].force
      /\ Ends(t, point).added = proc[t].added /\ Ends(t, point).wrote = proc[t].wrote
      /\ Ends(t, point).touched = proc[t].touched
  BY <1>2 DEF Ends, To, Commands
<1>5. QED
  BY <1>3, <1>4

LEMMA RefusedSound ==
  ASSUME TypeOK, NEW t \in Terminals, Sound(proc[t], disk), proc[t].wrote = {}
  PROVE  Ends(t, "refused") \in Commands /\ Sound(Ends(t, "refused"), disk)
<1> DEFINE p == Ends(t, "refused")
<1>1. /\ p \in Commands /\ p.at = "refused" /\ p.wrote = {}
      /\ p.added = proc[t].added /\ p.touched = proc[t].touched
  BY EndsFacts
<1> HIDE DEF p
<1>2. Sound(p, disk)
  BY <1>1 DEF Sound, Safe, Routed, Bare, Checked, Achieves, Adds, Registers, Read, Planning
<1>3. QED
  BY <1>1, <1>2 DEF p

LEMMA FailedSound ==
  ASSUME TypeOK, NEW t \in Terminals, Sound(proc[t], disk)
  PROVE  Ends(t, "failed") \in Commands /\ Sound(Ends(t, "failed"), disk)
<1> DEFINE p == Ends(t, "failed")
<1>1. p \in Commands /\ p.at = "failed" /\ p.added = proc[t].added /\ p.touched = proc[t].touched
  BY EndsFacts
<1> HIDE DEF p
<1>2. Sound(p, disk)
  BY <1>1 DEF Sound, Safe, Routed, Bare, Checked, Achieves, Adds, Registers, Read, Planning
<1>3. QED
  BY <1>1, <1>2 DEF p

LEMMA RefusesKeeps ==
  ASSUME IInv, NEW t \in Terminals, proc[t].wrote = {}, Refuses(t)
  PROVE  IInv'
BY RefusedSound, GoesKeeps DEF IInv, Refuses

LEMMA FailsKeeps ==
  ASSUME IInv, NEW t \in Terminals, Fails(t)
  PROVE  IInv'
BY FailedSound, GoesKeeps DEF IInv, Fails

(* Moving on to a point.                                                    *)
LEMMA ToFacts ==
  ASSUME TypeOK, NEW t \in Terminals, NEW point \in Points
  PROVE  /\ To(t, point) \in Commands /\ To(t, point).at = point
         /\ To(t, point).name = proc[t].name /\ To(t, point).force = proc[t].force
         /\ To(t, point).names = proc[t].names /\ To(t, point).added = proc[t].added
         /\ To(t, point).config = proc[t].config /\ To(t, point).plan = proc[t].plan
         /\ To(t, point).new = proc[t].new /\ To(t, point).wrote = proc[t].wrote
         /\ To(t, point).touched = proc[t].touched
BY DEF To, TypeOK, Commands

-----------------------------------------------------------------------------
(* extend add.                                                              *)

LEMMA PlanComposeKeeps ==
  ASSUME IInv, NEW t \in Terminals, planRecipeCompose(t)
  PROVE  IInv'
<1> DEFINE c == disk.compose
           r == Recipe(t)
           after == [c EXCEPT !.there = TRUE, !.services = "map", !.service[r] = MergeMapping(@, proc[t].force)]
           planned == finishYAMLPlan(c, after)
           p == [To(t, "config") EXCEPT !.new = IF c.there THEN {} ELSE {"compose"}, !.plan.compose = planned]
<1>1. /\ TypeOK /\ proc[t] \in Commands /\ c \in Compose /\ Sound(proc[t], disk) /\ At(t, "compose")
      /\ proc[t].at = "compose" /\ proc[t].wrote = {}
  BY DEF IInv, TypeOK, Disk, planRecipeCompose, At, Sound, Safe, Bare, Planning
<1>2. CASE Refuses(t)
  BY <1>1, <1>2, RefusesKeeps
<1>3. CASE ~(~proc[t].force /\ Has(c, r)) /\ Goes(t, p)
  <2>1. r = Head(proc[t].names) /\ r \in Recipes
    BY <1>1 DEF Recipe, Sound, Safe, Routed, Planning, Commands
  <2>2. MergeMapping(c.service[r], proc[t].force) = "recipe"
    BY <1>3 DEF Has, MergeMapping
  <2>3. after \in Compose /\ after.services = "map" /\ after.service = [c.service EXCEPT ![r] = "recipe"]
    BY <1>1, <2>1, <2>2 DEF Compose, Nodes, Whose
  <2>4. planned \in Maybe(Compose) /\ AfterPlan(c, planned) = after
    BY <2>3 DEF finishYAMLPlan, Maybe, AfterPlan, Nothing
  <2>5. \A q \in Recipes : ComposeHas(c, q) \/ q = r => ComposeHas(after, q)
    BY <1>1, <2>1, <2>3 DEF Compose, ComposeHas
  <2> HIDE DEF after, planned
  <2>6. p \in Commands
    BY <1>1, <2>4 DEF To, Commands, Plans, Points, PlannedFiles
  <2>7. /\ p.at = "config" /\ p.plan.compose = planned /\ p.plan.config = proc[t].plan.config
        /\ p.plan.env = proc[t].plan.env /\ p.plan.files = proc[t].plan.files
        /\ p.name = proc[t].name /\ p.names = proc[t].names /\ p.added = proc[t].added
        /\ p.config = proc[t].config /\ p.wrote = proc[t].wrote /\ p.touched = proc[t].touched
    BY <1>1 DEF To, Commands, Plans
  <2> HIDE DEF p, c
  <2>8. Safe(p, disk)
    BY <1>1, <2>7 DEF Sound, Safe, Routed, Bare, Checked, Planning
  <2>9. Achieves(p, disk)
    <3> SUFFICES ASSUME p.touched = {} PROVE Adds(p, disk) /\ Registers(p, disk) /\ Read(p, disk)
      BY DEF Achieves
    <3>1. Adds(proc[t], disk) /\ Read(proc[t], disk)
      BY <1>1, <2>7 DEF Sound, Achieves
    <3>2. p.added \subseteq Recipes
      BY <2>6 DEF Commands
    <3>3. \A q \in p.added \cup {Head(p.names)} : ComposeHas(AfterPlan(disk.compose, p.plan.compose), q)
      BY <2>1, <2>4, <2>5, <2>7, <3>1, <3>2 DEF Adds, Holds, c
    <3>4. Adds(p, disk)
      BY <2>7, <3>1, <3>3 DEF Adds
    <3>5. QED
      BY <1>1, <2>7, <3>1, <3>4 DEF Registers, Read, Planning
  <2>10. QED
    BY <1>3, <2>6, <2>8, <2>9, GoesKeeps DEF Sound
<1>4. QED
  BY <1>2, <1>3 DEF planRecipeCompose

(* A plan for one more file: p is at the next point, and differs from the   *)
(* command before in that file's plan, and in what it has to create.        *)
Continues(p, c, f) ==
  /\ p.name = c.name /\ p.names = c.names /\ p.added = c.added /\ p.config = c.config
  /\ p.wrote = c.wrote /\ p.touched = c.touched
  /\ \A g \in PlannedFiles \ {f} : p.plan[g] = c.plan[g]

LEMMA ToContinues ==
  ASSUME TypeOK, NEW t \in Terminals, NEW point \in Points, NEW f
  PROVE  /\ To(t, point) \in Commands /\ To(t, point).at = point
         /\ Continues(To(t, point), proc[t], f) /\ To(t, point).plan = proc[t].plan
<1> DEFINE p == To(t, point)
<1>1. /\ p \in Commands /\ p.at = point /\ p.name = proc[t].name /\ p.names = proc[t].names
      /\ p.added = proc[t].added /\ p.config = proc[t].config /\ p.plan = proc[t].plan
      /\ p.wrote = proc[t].wrote /\ p.touched = proc[t].touched
  BY ToFacts
<1> HIDE DEF p
<1>2. QED
  BY <1>1 DEF p, Continues

LEMMA PlanKeeps ==
  ASSUME IInv, NEW t \in Terminals, NEW f \in {"config", "env", "files"}, NEW p \in Commands,
         At(t, f), Goes(t, p), Continues(p, proc[t], f),
         p.at = CASE f = "config" -> "env" [] f = "env" -> "files" [] OTHER -> "check",
         proc[t].touched = {} =>
           CASE f = "config" -> \A q \in Recipes : ConfigHas(disk.config, q) \/ q = Recipe(t) =>
                                  ConfigHas(AfterPlan(disk.config, p.plan.config), q)
             [] f = "env" -> \A q \in Recipes : EnvHas(disk.env, q) \/ q = Recipe(t) =>
                                  EnvHas(AfterPlan(disk.env, p.plan.env), q)
             [] OTHER -> p.plan.files = Nothing => FilesHave(disk.files, Recipe(t))
  PROVE  IInv'
<1> DEFINE c == proc[t]
<1>1. /\ c \in Commands /\ Sound(c, disk) /\ c.at = f /\ c.wrote = {}
      /\ c.name = "add" /\ c.names # <<>> /\ c.config # Nothing /\ Recipe(t) = Head(c.names)
  BY DEF IInv, TypeOK, At, Sound, Safe, Routed, Bare, Planning, Recipe
<1>2. Recipe(t) \in Recipes /\ c.added \subseteq Recipes
  BY <1>1 DEF Commands
<1>3. Safe(p, disk)
  BY <1>1 DEF Sound, Safe, Routed, Bare, Checked, Planning, Continues, PlannedFiles
<1>4. ASSUME p.touched = {} PROVE Adds(p, disk) /\ Registers(p, disk) /\ Read(p, disk)
  <2>1. Adds(c, disk) /\ Read(c, disk)
    BY <1>1, <1>4 DEF Sound, Achieves, Continues
  <2>2. /\ p.plan.compose = c.plan.compose /\ (f # "config" => p.plan.config = c.plan.config)
        /\ f = "files" => p.plan.env = c.plan.env
    BY DEF Continues, PlannedFiles
  <2>3. p.added = c.added /\ Head(p.names) = Recipe(t) /\ \A q \in c.added : Holds(disk, q)
    BY <1>1, <2>1 DEF Adds, Continues
  <2> DEFINE all == c.added \cup {Recipe(t)}
  <2>4. all \subseteq Recipes /\ \A q \in all : ComposeHas(AfterPlan(disk.compose, p.plan.compose), q)
    BY <1>1, <1>2, <2>1, <2>2 DEF Adds
  <2>5. f = "config" => \A q \in all : ConfigHas(AfterPlan(disk.config, p.plan.config), q)
    BY <1>2, <1>4, <2>3 DEF Holds, Continues
  <2>6. f \in {"env", "files"} => \A q \in all : ConfigHas(AfterPlan(disk.config, p.plan.config), q)
    BY <1>1, <2>1, <2>2 DEF Adds
  <2>7. f = "env" => \A q \in all : EnvHas(AfterPlan(disk.env, p.plan.env), q)
    BY <1>2, <1>4, <2>3 DEF Holds, Continues
  <2>8. f = "files" => \A q \in all : EnvHas(AfterPlan(disk.env, p.plan.env), q)
    BY <1>1, <2>1, <2>2 DEF Adds
  <2>9. f = "files" /\ p.plan.files = Nothing => FilesHave(disk.files, Recipe(t))
    BY <1>4 DEF Continues
  <2> HIDE DEF all
  <2>10. Adds(p, disk)
    BY <2>3, <2>4, <2>5, <2>6, <2>7, <2>8, <2>9 DEF Adds, all
  <2>11. QED
    BY <1>1, <2>1, <2>10 DEF Registers, Read, Planning, Continues
<1>5. QED
  BY <1>3, <1>4, GoesKeeps DEF Sound, Achieves

LEMMA MergeConfigFacts ==
  ASSUME NEW g \in Config
  PROVE  /\ mergeRecipeConfig(g) \in Config
         /\ \A q \in Recipes : ConfigHas(mergeRecipeConfig(g), q)
<1> DEFINE merged == [g EXCEPT !.image = "map", !.list = "list", !.extension = AppendUnique(@)]
           m == [merged EXCEPT !.ini = "map", !.directive = MergeMapping(@, FALSE)]
<1>1. /\ merged \in Config /\ merged.extension # "none"
      /\ merged.ini = g.ini /\ merged.directive = g.directive
  BY DEF Config, Nodes, Whose, AppendUnique
<1> HIDE DEF merged
<1>2. MergeMapping(merged.directive, FALSE) \in Whose \ {"none"}
  BY <1>1 DEF MergeMapping, Config, Whose
<1>3. m \in Config /\ m.extension = merged.extension /\ m.directive # "none"
  BY <1>1, <1>2 DEF Config, Nodes
<1> HIDE DEF m
<1>4. mergeRecipeConfig(g) = IF g.ini = "file" THEN merged ELSE m
  BY DEF mergeRecipeConfig, merged, m
<1>5. QED
  BY <1>1, <1>3, <1>4 DEF ConfigHas

LEMMA PlanConfigKeeps ==
  ASSUME IInv, NEW t \in Terminals, planRecipeConfig(t)
  PROVE  IInv'
<1> DEFINE g == proc[t].config[1]
           planned == finishYAMLPlan(g, mergeRecipeConfig(g))
           p == [To(t, "env") EXCEPT !.plan.config = planned]
<1>1. /\ TypeOK /\ proc[t] \in Commands /\ Sound(proc[t], disk) /\ At(t, "config") /\ proc[t].at = "config"
      /\ proc[t].wrote = {} /\ proc[t].config # Nothing /\ proc[t].plan.config = Nothing
  BY DEF IInv, TypeOK, planRecipeConfig, At, Sound, Safe, Bare, Routed, Planning
<1>2. g \in Config /\ (proc[t].touched = {} => g = disk.config)
  BY <1>1 DEF Commands, Maybe, Sound, Achieves, Read, Planning
<1>3. CASE Refuses(t)
  BY <1>1, <1>3, RefusesKeeps
<1>4. CASE Recipe(t) \notin Configured /\ Goes(t, To(t, "env"))
  <2>1. To(t, "env") \in Commands /\ To(t, "env").at = "env" /\ Continues(To(t, "env"), proc[t], "config")
        /\ To(t, "env").plan = proc[t].plan
    BY <1>1, ToContinues DEF Points
  <2>2. \A q \in Recipes : ConfigHas(disk.config, q) \/ q = Recipe(t) => ConfigHas(AfterPlan(disk.config, Nothing), q)
    BY <1>4 DEF AfterPlan, ConfigHas
  <2>3. QED
    BY <1>1, <1>4, <2>1, <2>2, PlanKeeps
<1>5. CASE Goes(t, p)
  <2>1. mergeRecipeConfig(g) \in Config
    BY <1>2, MergeConfigFacts
  <2>2. planned \in Maybe(Config) /\ AfterPlan(g, planned) = mergeRecipeConfig(g)
    BY <2>1 DEF finishYAMLPlan, Maybe, AfterPlan, Nothing
  <2>3. \A q \in Recipes : ConfigHas(AfterPlan(g, planned), q)
    BY <1>2, <2>2, MergeConfigFacts
  <2> HIDE DEF planned
  <2>4. p \in Commands /\ p.at = "env" /\ Continues(p, proc[t], "config") /\ p.plan.config = planned
    BY <1>1, <2>2 DEF To, Commands, Plans, Points, PlannedFiles, Continues
  <2> HIDE DEF p, g
  <2>5. QED
    BY <1>1, <1>2, <1>5, <2>3, <2>4, PlanKeeps
<1>6. QED
  BY <1>3, <1>4, <1>5 DEF planRecipeConfig

LEMMA PlanEnvKeeps ==
  ASSUME IInv, NEW t \in Terminals, planRecipeEnv(t)
  PROVE  IInv'
<1> DEFINE e == disk.env
           line == [key |-> RecipeKey, value |-> <<>>, by |-> "recipe"]
           after == [there |-> TRUE, lines |-> Append(e.lines, line)]
           p == [To(t, "files") EXCEPT !.plan.env = <<after>>, !.new = @ \cup (IF e.there THEN {} ELSE {"env"})]
<1>1. /\ TypeOK /\ proc[t] \in Commands /\ Sound(proc[t], disk) /\ At(t, "env") /\ proc[t].at = "env"
      /\ proc[t].plan.env = Nothing /\ e \in Env
  BY DEF IInv, TypeOK, Disk, planRecipeEnv, At, Sound, Safe, Routed, Planning
<1>2. CASE (Recipe(t) \notin WithEnv \/ RecipeKey \in envKeys(e.lines)) /\ Goes(t, To(t, "files"))
  <2>1. /\ To(t, "files") \in Commands /\ To(t, "files").at = "files"
        /\ Continues(To(t, "files"), proc[t], "env") /\ To(t, "files").plan = proc[t].plan
    BY <1>1, ToContinues DEF Points
  <2>2. \A q \in Recipes : EnvHas(disk.env, q) \/ q = Recipe(t) => EnvHas(AfterPlan(disk.env, Nothing), q)
    BY <1>2 DEF AfterPlan, EnvHas, envKeys
  <2>3. QED
    BY <1>1, <1>2, <2>1, <2>2, PlanKeeps
<1>3. CASE Goes(t, p)
  <2>1. line \in [key : EnvKeys, value : Seq(STRING), by : Whose]
    <3>1. <<>> \in Seq(STRING)
      OBVIOUS
    <3>2. QED
      BY <3>1, RecipesAssumption DEF RecipesAssumption, Whose
  <2>2. RecipeKey \in KeysOf(after.lines)
    <3>1. Len(e.lines) + 1 \in DOMAIN after.lines /\ after.lines[Len(e.lines) + 1] = line
      BY <1>1, <2>1 DEF Env
    <3>2. QED
      BY <3>1 DEF KeysOf
  <2>3. after \in Env
    BY <1>1, <2>1 DEF Env
  <2> HIDE DEF line, after
  <2>4. \A q \in Recipes : EnvHas(AfterPlan(disk.env, <<after>>), q)
    BY <2>2 DEF AfterPlan, EnvHas, Nothing
  <2>5. <<after>> \in Maybe(Env)
    BY <2>3 DEF Maybe
  <2>6. p \in Commands /\ p.at = "files" /\ Continues(p, proc[t], "env") /\ p.plan.env = <<after>>
    BY <1>1, <2>5 DEF To, Commands, Plans, Points, PlannedFiles, Continues
  <2> HIDE DEF p
  <2>7. QED
    BY <1>1, <1>3, <2>4, <2>6, PlanKeeps
<1>4. QED
  BY <1>2, <1>3 DEF planRecipeEnv

LEMMA PlanFilesKeeps ==
  ASSUME IInv, NEW t \in Terminals, planRecipeFiles(t)
  PROVE  IInv'
<1> DEFINE p == [To(t, "check") EXCEPT !.plan.files = <<"recipe">>, !.new = @ \cup {"files"}]
<1>1. TypeOK /\ proc[t] \in Commands /\ Sound(proc[t], disk) /\ At(t, "files") /\ proc[t].at = "files"
  BY DEF IInv, TypeOK, planRecipeFiles, At
<1>2. CASE (Recipe(t) \notin WithFiles \/ disk.files[Recipe(t)] # "none") /\ Goes(t, To(t, "check"))
  <2>1. /\ To(t, "check") \in Commands /\ To(t, "check").at = "check"
        /\ Continues(To(t, "check"), proc[t], "files")
    BY <1>1, ToContinues DEF Points
  <2>2. FilesHave(disk.files, Recipe(t))
    BY <1>2 DEF FilesHave
  <2>3. QED
    BY <1>1, <1>2, <2>1, <2>2, PlanKeeps
<1>3. CASE Goes(t, p)
  <2>1. <<"recipe">> \in Maybe({"recipe"}) /\ <<"recipe">> # Nothing
    BY DEF Maybe, Nothing
  <2>2. p \in Commands /\ p.at = "check" /\ Continues(p, proc[t], "files") /\ p.plan.files # Nothing
    BY <1>1, <2>1 DEF To, Commands, Plans, Points, PlannedFiles, Continues
  <2> HIDE DEF p
  <2>3. QED
    BY <1>1, <1>3, <2>2, PlanKeeps
<1>4. QED
  BY <1>2, <1>3 DEF planRecipeFiles

LEMMA CheckPlanKeeps ==
  ASSUME IInv, NEW t \in Terminals, CheckPlan(t)
  PROVE  IInv'
<1> DEFINE c == proc[t]
           p == To(t, "write")
<1>1. TypeOK /\ c \in Commands /\ Sound(c, disk) /\ c.at = "check" /\ c.wrote = {}
  BY DEF IInv, TypeOK, CheckPlan, At, Sound, Safe, Bare, Planning
<1>2. CASE Refuses(t)
  BY <1>1, <1>2, RefusesKeeps
<1>3. CASE checkWritable(ToWrite(t)) /\ Goes(t, p)
  <2>1. p \in Commands /\ p.at = "write" /\ Continues(p, c, "none") /\ p.plan = c.plan
    BY <1>1, ToContinues DEF Points
  <2>2. \A f \in PlannedFiles : c.plan[f] # Nothing => f \notin disk.outside
    BY <1>3 DEF checkWritable, ToWrite, ToSet, Planned, PlannedFiles
  <2> HIDE DEF p, c
  <2>3. Safe(p, disk)
    BY <1>1, <2>1, <2>2 DEF Sound, Safe, Routed, Bare, Checked, Planning, Continues
  <2>4. ASSUME p.touched = {} PROVE Adds(p, disk) /\ Registers(p, disk) /\ Read(p, disk)
    BY <1>1, <2>1, <2>4 DEF Sound, Achieves, Adds, Registers, Read, Planning, Continues
  <2>5. QED
    BY <1>3, <2>1, <2>3, <2>4, GoesKeeps DEF Sound, Achieves
<1>4. QED
  BY <1>2, <1>3 DEF CheckPlan

(* The write of one file leaves what the plan comes to as it is.            *)
LEMMA WriteSound ==
  ASSUME TypeOK, NEW t \in Terminals, Sound(proc[t], disk), At(t, "write"), NEW f \in ToWrite(t),
         NEW d, d = IF f = "files" THEN [disk EXCEPT !.files[Recipe(t)] = proc[t].plan[f][1]]
                                   ELSE [disk EXCEPT ![f] = proc[t].plan[f][1]],
         NEW p \in Commands, Continues([p EXCEPT !.wrote = proc[t].wrote], proc[t], f), p.at = "write",
         p.plan[f] = Nothing
  PROVE  d \in Disk /\ d.outside = disk.outside /\ Sound(p, d)
<1> DEFINE c == proc[t]
           r == Recipe(t)
<1>1. /\ c \in Commands /\ c.at = "write" /\ c.name = "add" /\ c.names # <<>> /\ c.config # Nothing
      /\ r = Head(c.names) /\ disk \in Disk
  BY DEF TypeOK, At, Sound, Safe, Routed, Recipe
<1>2. r \in Recipes /\ c.added \subseteq Recipes
  BY <1>1 DEF Commands
<1>3. /\ p.name = c.name /\ p.names = c.names /\ p.added = c.added /\ p.config = c.config
      /\ p.touched = c.touched /\ \A g \in PlannedFiles \ {f} : p.plan[g] = c.plan[g]
  BY DEF Continues, Commands
<1>4. f \in PlannedFiles /\ c.plan[f] # Nothing
  BY DEF ToWrite, ToSet, Planned, PlannedFiles
<1>5. /\ d \in Disk /\ d.outside = disk.outside
      /\ d.compose = AfterPlan(disk.compose, IF f = "compose" THEN c.plan.compose ELSE Nothing)
      /\ d.config = AfterPlan(disk.config, IF f = "config" THEN c.plan.config ELSE Nothing)
      /\ d.env = AfterPlan(disk.env, IF f = "env" THEN c.plan.env ELSE Nothing)
      /\ d.files = IF f = "files" THEN [disk.files EXCEPT ![r] = "recipe"] ELSE disk.files
  <2>1. /\ f = "compose" => c.plan.compose[1] \in Compose
        /\ f = "config" => c.plan.config[1] \in Config
        /\ f = "env" => c.plan.env[1] \in Env
        /\ f = "files" => c.plan.files[1] = "recipe"
    BY <1>1, <1>4 DEF Commands, Plans, Maybe
  <2>2. CASE f = "compose"
    BY <1>1, <1>4, <2>1, <2>2 DEF Disk, AfterPlan
  <2>3. CASE f = "config"
    BY <1>1, <1>4, <2>1, <2>3 DEF Disk, AfterPlan
  <2>4. CASE f = "env"
    BY <1>1, <1>4, <2>1, <2>4 DEF Disk, AfterPlan
  <2>5. CASE f = "files"
    BY <1>1, <1>2, <2>1, <2>5 DEF Disk, AfterPlan, Whose
  <2>6. QED
    BY <1>4, <2>2, <2>3, <2>4, <2>5 DEF PlannedFiles
<1>6. /\ AfterPlan(d.compose, p.plan.compose) = AfterPlan(disk.compose, c.plan.compose)
      /\ AfterPlan(d.config, p.plan.config) = AfterPlan(disk.config, c.plan.config)
      /\ AfterPlan(d.env, p.plan.env) = AfterPlan(disk.env, c.plan.env)
      /\ f # "files" => p.plan.files = c.plan.files
  BY <1>3, <1>4, <1>5 DEF AfterPlan, PlannedFiles
<1> HIDE DEF c, r
<1>7. Safe(p, d)
  BY <1>1, <1>3, <1>5 DEF Sound, Safe, Routed, Bare, Checked, Planning, c
<1>8. ASSUME p.touched = {} PROVE Adds(p, d)
  <2>1. Adds(c, disk)
    BY <1>3, <1>8 DEF Sound, Achieves, c
  <2> DEFINE all == c.added \cup {r}
  <2>2. /\ \A q \in all : ComposeHas(AfterPlan(disk.compose, c.plan.compose), q)
        /\ \A q \in all : ConfigHas(AfterPlan(disk.config, c.plan.config), q)
        /\ \A q \in all : EnvHas(AfterPlan(disk.env, c.plan.env), q)
        /\ \A q \in c.added : Holds(disk, q)
        /\ c.plan.files = Nothing => FilesHave(disk.files, r)
    BY <1>1, <2>1 DEF Adds
  <2>3. ASSUME NEW q \in c.added PROVE Holds(d, q)
    <3>1. ComposeHas(d.compose, q)
      BY <1>4, <1>5, <2>2, <2>3 DEF Holds, AfterPlan
    <3>2. ConfigHas(d.config, q)
      BY <1>4, <1>5, <2>2, <2>3 DEF Holds, AfterPlan
    <3>3. EnvHas(d.env, q)
      BY <1>4, <1>5, <2>2, <2>3 DEF Holds, AfterPlan
    <3>4. FilesHave(d.files, q)
      BY <1>1, <1>2, <1>5, <2>2, <2>3 DEF Holds, FilesHave, Disk
    <3>5. QED
      BY <3>1, <3>2, <3>3, <3>4 DEF Holds
  <2>4. p.plan.files = Nothing => FilesHave(d.files, r)
    BY <1>1, <1>2, <1>5, <1>6, <2>2 DEF FilesHave, Disk
  <2> HIDE DEF all
  <2>5. QED
    BY <1>1, <1>3, <1>6, <2>2, <2>3, <2>4 DEF Adds, all
<1>9. Registers(p, d) /\ Read(p, d)
  BY DEF Registers, Read, Planning
<1>10. QED
  BY <1>5, <1>7, <1>8, <1>9 DEF Sound, Achieves

LEMMA WriteKeeps ==
  ASSUME IInv, NEW t \in Terminals, writeInsideProject(t)
  PROVE  IInv'
<1> DEFINE c == proc[t]
<1>1. TypeOK /\ c \in Commands /\ Sound(c, disk) /\ At(t, "write")
  BY DEF IInv, TypeOK, writeInsideProject
<1>2. PICK f \in ToWrite(t) :
        IF f \in disk.outside THEN Refuses(t)
        ELSE \/ Fails(t)
             \/ /\ disk' = IF f = "files" THEN [disk EXCEPT !.files[Recipe(t)] = c.plan[f][1]]
                                          ELSE [disk EXCEPT ![f] = c.plan[f][1]]
                /\ Writes(t, f, [c EXCEPT !.plan[f] = Nothing])
  BY DEF writeInsideProject
<1>3. f \in PlannedFiles /\ f \in Written /\ f \notin disk.outside
  BY <1>1 DEF ToWrite, ToSet, Planned, PlannedFiles, Written, Linkable, At, Sound, Safe, Checked
<1>4. CASE Fails(t)
  BY <1>4, FailsKeeps
<1>5. CASE /\ disk' = IF f = "files" THEN [disk EXCEPT !.files[Recipe(t)] = c.plan[f][1]]
                                     ELSE [disk EXCEPT ![f] = c.plan[f][1]]
           /\ Writes(t, f, [c EXCEPT !.plan[f] = Nothing])
  <2> DEFINE p == [c EXCEPT !.plan[f] = Nothing]
             q == [p EXCEPT !.wrote = @ \cup {f}]
  <2>1. [c.plan EXCEPT ![f] = Nothing] \in Plans
    BY <1>1, <1>3 DEF Commands, Plans, Maybe, PlannedFiles
  <2>2. p \in Commands /\ p.plan = [c.plan EXCEPT ![f] = Nothing]
    BY <1>1, <2>1 DEF Commands
  <2>3. /\ p.at = c.at /\ p.name = c.name /\ p.names = c.names /\ p.added = c.added /\ p.config = c.config
        /\ p.touched = c.touched
    BY <1>1 DEF Commands
  <2> HIDE DEF p
  <2>4. q \in Commands /\ q.plan = p.plan
    BY <1>3, <2>2 DEF Commands, Written
  <2>5. /\ q.at = c.at /\ q.name = c.name /\ q.names = c.names /\ q.added = c.added /\ q.config = c.config
        /\ q.touched = c.touched
    BY <2>2, <2>3 DEF Commands
  <2> HIDE DEF q
  <2>6. q.at = "write" /\ q.plan[f] = Nothing /\ \A g \in PlannedFiles \ {f} : q.plan[g] = c.plan[g]
    BY <1>1, <1>3, <2>2, <2>4, <2>5 DEF At, Commands, Plans, PlannedFiles
  <2>7. Continues([q EXCEPT !.wrote = c.wrote], c, f)
    BY <2>4, <2>5, <2>6 DEF Commands, Continues
  <2>8. disk' \in Disk /\ disk'.outside = disk.outside /\ Sound(q, disk')
    BY <1>1, <1>5, <2>4, <2>6, <2>7, WriteSound
  <2>9. QED
    BY <1>3, <1>5, <2>2, <2>8, WritesKeeps DEF p, q
<1>6. QED
  BY <1>2, <1>3, <1>4, <1>5

LEMMA AddedKeeps ==
  ASSUME IInv, NEW t \in Terminals, RecipeAdded(t)
  PROVE  IInv'
<1> DEFINE c == proc[t]
           r == Recipe(t)
           rest == Tail(c.names)
           e == Ends(t, IF rest = <<>> THEN "done" ELSE "open")
           p == [e EXCEPT !.added = @ \cup {r}, !.names = rest]
<1>1. TypeOK /\ c \in Commands /\ Sound(c, disk) /\ c.at = "write" /\ c.name = "add" /\ c.names # <<>>
  BY DEF IInv, TypeOK, RecipeAdded, At, Sound, Safe, Routed
<1>2. r = Head(c.names) /\ r \in Recipes /\ rest \in Seq(Recipes)
  BY <1>1 DEF Commands, Recipe
<1>3. c.plan.compose = Nothing /\ c.plan.config = Nothing /\ c.plan.env = Nothing /\ c.plan.files = Nothing
  BY DEF RecipeAdded, ToWrite, ToSet, Planned
<1>4. /\ NoPlan.compose = Nothing /\ NoPlan.config = Nothing /\ NoPlan.env = Nothing /\ NoPlan.files = Nothing
  BY DEF NoPlan, ToSet, Planned
<1>5. /\ e \in Commands /\ e.at = (IF rest = <<>> THEN "done" ELSE "open") /\ e.name = c.name
      /\ e.added = c.added /\ e.touched = c.touched /\ e.plan = NoPlan
  BY <1>1, EndsFacts
<1> HIDE DEF e
<1>6. /\ p \in Commands /\ p.at = e.at /\ p.name = "add" /\ p.added = c.added \cup {r} /\ p.names = rest
      /\ p.touched = c.touched /\ p.plan = NoPlan
  BY <1>1, <1>2, <1>5 DEF Commands
<1> HIDE DEF p, rest
<1>7. Safe(p, disk)
  BY <1>4, <1>5, <1>6 DEF Safe, Routed, Bare, Checked, Planning
<1>8. ASSUME p.touched = {} PROVE Adds(p, disk) /\ Registers(p, disk) /\ Read(p, disk)
  <2>1. Adds(c, disk)
    BY <1>1, <1>6, <1>8 DEF Sound, Achieves
  <2>2. Holds(disk, r)
    BY <1>1, <1>2, <1>3, <2>1 DEF Adds, Holds, AfterPlan
  <2>3. \A q \in p.added : Holds(disk, q)
    BY <1>6, <2>1, <2>2 DEF Adds
  <2>4. QED
    BY <1>5, <1>6, <2>3 DEF Adds, Registers, Read, Planning
<1>9. QED
  BY <1>6, <1>7, <1>8, GoesKeeps DEF RecipeAdded, p, e, rest, Sound, Achieves

-----------------------------------------------------------------------------
(* The command line, and the config every subcommand reads.                 *)

LEMMA OpenKeeps ==
  ASSUME IInv, NEW t \in Terminals, openProject(t)
  PROVE  IInv'
<1> DEFINE c == proc[t]
           next == CASE c.name = "add" -> "compose" [] c.name = "image" -> "dockerfile"
                     [] c.name = "compose" -> "template" [] OTHER -> "check ignore"
           p == [To(t, next) EXCEPT !.config = <<disk.config>>, !.wrote = {}]
<1>1. TypeOK /\ c \in Commands /\ Sound(c, disk) /\ c.at = "open" /\ disk \in Disk
  BY DEF IInv, TypeOK, openProject, At
<1>2. /\ c.name \in {"add", "image", "compose", "local"} /\ (c.name = "add" => c.names # <<>>)
      /\ c.plan.compose = Nothing /\ c.plan.config = Nothing /\ c.plan.env = Nothing /\ c.plan.files = Nothing
  BY <1>1 DEF Sound, Safe, Routed
<1>3. next \in Points /\ next \in {"compose", "dockerfile", "template", "check ignore"}
      /\ (next = "compose" <=> c.name = "add") /\ (next = "dockerfile" <=> c.name = "image")
      /\ (next = "template" <=> c.name = "compose") /\ (next = "check ignore" <=> c.name = "local")
  BY <1>2 DEF Points
<1>4. <<disk.config>> \in Maybe(Config) /\ <<disk.config>> # Nothing
  BY <1>1 DEF Maybe, Disk, Nothing
<1> HIDE DEF next
<1>5. /\ p \in Commands /\ p.at = next /\ p.config = <<disk.config>> /\ p.wrote = {}
      /\ p.name = c.name /\ p.names = c.names /\ p.added = c.added /\ p.plan = c.plan /\ p.touched = c.touched
  BY <1>1, <1>3, <1>4 DEF To, Commands
<1> HIDE DEF p, c
<1>6. Safe(p, disk)
  BY <1>2, <1>3, <1>4, <1>5 DEF Safe, Routed, Bare, Checked, Planning
<1>7. ASSUME p.touched = {} PROVE Adds(p, disk) /\ Registers(p, disk) /\ Read(p, disk)
  <2>1. Adds(c, disk)
    BY <1>1, <1>5, <1>7 DEF Sound, Achieves
  <2>2. QED
    BY <1>3, <1>5, <2>1 DEF Adds, Registers, Read, Planning
<1>8. Goes(t, p)
  BY DEF openProject, p, next, c
<1>9. QED
  BY <1>5, <1>6, <1>7, <1>8, GoesKeeps DEF Sound, Achieves

-----------------------------------------------------------------------------
(* The recipes of a command line are recipes, one for each name at least.   *)
(* By induction over the names, from the least element of a set.            *)

LEMMA LeastElement ==
  ASSUME NEW S \in SUBSET Nat, S # {}
  PROVE  \E m \in S : \A k \in S : m <= k
<1>1. PICK x \in S : \A y \in S : ~(<<y, x>> \in OpToRel(<, Nat))
  <2>1. IsWellFoundedOn(OpToRel(<, Nat), Nat)
    BY NatLessThanWellFounded
  <2>2. QED
    BY <2>1, WFMin
<1>2. \A y \in S : ~(y < x)
  <2>1. \A y \in S : y < x => <<y, x>> \in OpToRel(<, Nat)
    BY DEF OpToRel
  <2>2. QED
    BY <1>1, <2>1, Zenon
<1>3. x \in S /\ x \in Nat
  OBVIOUS
<1> HIDE <1>1
<1>4. QED
  BY <1>2, <1>3

LEMMA EveryNatural ==
  ASSUME NEW S, 0 \in S, \A n \in Nat : n \in S => n + 1 \in S
  PROVE  Nat \subseteq S
<1>1. SUFFICES ASSUME Nat \ S # {} PROVE FALSE
  OBVIOUS
<1>2. PICK m \in Nat \ S : \A k \in Nat \ S : m <= k
  BY <1>1, LeastElement
<1>3. m - 1 \in Nat /\ m - 1 \in S
  BY <1>2
<1>4. QED
  BY <1>2, <1>3

Selection(F, names, n) ==
  F = [i \in 0 .. n |-> IF i = 0 THEN <<>>
                        ELSE IF Contains(F[i - 1], names[i]) THEN F[i - 1]
                        ELSE Append(F[i - 1], names[i])]

LEMMA SelectionExists ==
  ASSUME NEW names, NEW n \in Nat
  PROVE  \E F : Selection(F, names, n)
<1> DEFINE Good == {k \in Nat : \E F : Selection(F, names, k)}
           After(r, k) == IF Contains(r, names[k]) THEN r ELSE Append(r, names[k])
<1>1. 0 \in Good
  <2> DEFINE F == [i \in 0 .. 0 |-> <<>>]
  <2>1. Selection(F, names, 0)
    BY DEF Selection
  <2>2. QED
    BY <2>1
<1>2. ASSUME NEW k \in Nat, k \in Good PROVE k + 1 \in Good
  <2>1. PICK F : Selection(F, names, k)
    BY <1>2
  <2> DEFINE G == [i \in 0 .. k + 1 |-> IF i <= k THEN F[i] ELSE After(F[k], i)]
  <2>2. \A i \in 0 .. k : G[i] = F[i]
    OBVIOUS
  <2>3. G[k + 1] = After(G[k], k + 1)
    BY <2>2
  <2>4. \A i \in 0 .. k : F[i] = IF i = 0 THEN <<>> ELSE After(F[i - 1], i)
    BY <2>1 DEF Selection
  <2>5. G = [i \in 0 .. k + 1 |-> G[i]]
    OBVIOUS
  <2> HIDE DEF G, After
  <2>6. \A i \in 0 .. k + 1 : G[i] = IF i = 0 THEN <<>> ELSE After(G[i - 1], i)
    <3> TAKE i \in 0 .. k + 1
    <3>1. CASE i = k + 1
      BY <2>3, <3>1
    <3>2. CASE i # k + 1
      <4>1. i \in 0 .. k /\ (i # 0 => i - 1 \in 0 .. k)
        BY <3>2
      <4>2. QED
        BY <2>2, <2>4, <4>1
    <3>3. QED
      BY <3>1, <3>2
  <2>7. Selection(G, names, k + 1)
    BY <2>5, <2>6 DEF Selection, After
  <2>8. QED
    BY <2>7
<1> HIDE DEF Good
<1>3. Nat \subseteq Good
  BY <1>1, <1>2, EveryNatural
<1>4. QED
  BY <1>3 DEF Good

LEMMA SelectedRecipes ==
  ASSUME NEW S, NEW names \in Seq(S)
  PROVE  selectRecipes(names) \in Seq(Recipes)
<1> DEFINE n == Len(names)
           F == CHOOSE G : Selection(G, names, n)
<1>1. CASE ~(ToSet(names) \subseteq Recipes)
  BY <1>1 DEF selectRecipes
<1>2. CASE ToSet(names) \subseteq Recipes
  <2>1. n \in Nat /\ \A i \in 1 .. n : names[i] \in Recipes
    BY <1>2 DEF ToSet
  <2>2. selectRecipes(names) = F[n]
    BY <1>2 DEF selectRecipes, Selection
  <2>3. Selection(F, names, n)
    BY <2>1, SelectionExists
  <2> HIDE DEF F, n
  <2>4. \A i \in 0 .. n : F[i] = IF i = 0 THEN <<>>
                                 ELSE IF Contains(F[i - 1], names[i]) THEN F[i - 1]
                                 ELSE Append(F[i - 1], names[i])
    BY <2>3 DEF Selection
  <2> DEFINE Good == {i \in Nat : i <= n => F[i] \in Seq(Recipes)}
  <2>5. 0 \in Good
    <3>1. <<>> \in Seq(Recipes)
      OBVIOUS
    <3>2. 0 \in 0 .. n
      BY <2>1
    <3>3. F[0] = <<>>
      BY <2>4, <3>2
    <3>4. QED
      BY <3>1, <3>3
  <2>6. ASSUME NEW i \in Nat, i \in Good PROVE i + 1 \in Good
    <3> SUFFICES ASSUME i + 1 <= n PROVE F[i + 1] \in Seq(Recipes)
      OBVIOUS
    <3>1. i + 1 \in 0 .. n /\ i + 1 \in 1 .. n /\ (i + 1) - 1 = i /\ i + 1 # 0 /\ F[i] \in Seq(Recipes)
      BY <2>1, <2>6
    <3>2. F[i + 1] = IF Contains(F[i], names[i + 1]) THEN F[i] ELSE Append(F[i], names[i + 1])
      BY <2>4, <3>1
    <3>3. QED
      BY <2>1, <3>1, <3>2
  <2> HIDE DEF Good
  <2>7. Nat \subseteq Good
    BY <2>5, <2>6, EveryNatural
  <2>8. QED
    BY <2>1, <2>2, <2>7 DEF Good
<1>3. QED
  BY <1>1, <1>2

LEMMA StartKeeps ==
  ASSUME IInv, NEW t \in Terminals, Start(t)
  PROVE  IInv'
<1>1. Idle \in Commands /\ Sound(Idle, disk)
  BY IdleFacts DEF IInv, TypeOK
<1>2. /\ Idle.added = {} /\ Idle.wrote = {} /\ Idle.names = <<>> /\ Idle.plan = NoPlan
      /\ NoPlan.compose = Nothing /\ NoPlan.config = Nothing /\ NoPlan.env = Nothing /\ NoPlan.files = Nothing
  BY DEF Idle, NoPlan, ToSet, Planned
<1>3. CASE Goes(t, [Idle EXCEPT !.at = "up", !.name = "up"])
  <2> DEFINE p == [Idle EXCEPT !.at = "up", !.name = "up"]
  <2>1. p \in Commands /\ p.at = "up" /\ p.name = "up" /\ p.added = {}
    BY <1>1, <1>2 DEF Commands, Points, Names
  <2> HIDE DEF p
  <2>2. Sound(p, disk)
    BY <2>1 DEF Sound, Safe, Routed, Bare, Checked, Achieves, Adds, Registers, Read, Planning
  <2>3. QED
    BY <1>3, <2>1, <2>2, GoesKeeps DEF p
<1>4. CASE \E name \in {"image", "compose", "local"} : Goes(t, [Idle EXCEPT !.at = "open", !.name = name])
  <2>1. PICK name \in {"image", "compose", "local"} : Goes(t, [Idle EXCEPT !.at = "open", !.name = name])
    BY <1>4
  <2> DEFINE p == [Idle EXCEPT !.at = "open", !.name = name]
  <2>2. p \in Commands /\ p.at = "open" /\ p.name = name /\ p.added = {} /\ p.plan = NoPlan
    BY <1>1, <1>2 DEF Commands, Points, Names
  <2> HIDE DEF p
  <2>3. Sound(p, disk)
    BY <1>2, <2>2 DEF Sound, Safe, Routed, Bare, Checked, Achieves, Adds, Registers, Read, Planning
  <2>4. QED
    BY <2>1, <2>2, <2>3, GoesKeeps DEF p
<1>5. CASE \E a \in Arguments :
        Goes(t, [Idle EXCEPT !.name = "add", !.force = a.force, !.names = selectRecipes(a.names),
                             !.at = IF selectRecipes(a.names) = <<>> THEN "refused" ELSE "open"])
  <2>1. PICK a \in Arguments :
          Goes(t, [Idle EXCEPT !.name = "add", !.force = a.force, !.names = selectRecipes(a.names),
                               !.at = IF selectRecipes(a.names) = <<>> THEN "refused" ELSE "open"])
    BY <1>5
  <2> DEFINE names == selectRecipes(a.names)
             p == [Idle EXCEPT !.name = "add", !.force = a.force, !.names = names,
                               !.at = IF names = <<>> THEN "refused" ELSE "open"]
  <2>2. names \in Seq(Recipes)
    BY SelectedRecipes, RecipesAssumption DEF RecipesAssumption
  <2>3. a.force \in BOOLEAN
    BY RecipesAssumption DEF RecipesAssumption
  <2> HIDE DEF names
  <2>4. p \in Commands
    BY <1>1, <2>2, <2>3 DEF Commands, Points, Names
  <2>5. /\ p.at = (IF names = <<>> THEN "refused" ELSE "open") /\ p.name = "add" /\ p.names = names
        /\ p.added = {} /\ p.plan = NoPlan /\ p.wrote = {}
    BY <1>1, <1>2 DEF Commands
  <2> HIDE DEF p
  <2>6. Sound(p, disk)
    BY <1>2, <2>5 DEF Sound, Safe, Routed, Bare, Checked, Achieves, Adds, Registers, Read, Planning
  <2>7. QED
    BY <2>1, <2>4, <2>6, GoesKeeps DEF p, names
<1>6. QED
  BY <1>3, <1>4, <1>5 DEF Start

-----------------------------------------------------------------------------
(* The other subcommands.                                                   *)

(* A command that has nothing more to write.                                *)
LEMMA MovesKeep ==
  ASSUME IInv, NEW t \in Terminals, NEW p \in Commands, Goes(t, p),
         p.added = proc[t].added, p.touched = proc[t].touched, p.name = proc[t].name,
         p.at \in {"template", "register", "ignore", "done"}, p.name # "add",
         Safe(p, disk), p.touched = {} => Registers(p, disk) /\ Read(p, disk)
  PROVE  IInv'
<1>1. p.touched = {} => Adds(p, disk)
  BY DEF IInv, Sound, Achieves, Adds
<1>2. Sound(p, disk)
  BY <1>1 DEF Sound, Achieves
<1>3. QED
  BY <1>2, GoesKeeps

LEMMA ImageKeeps ==
  ASSUME IInv, NEW t \in Terminals, ExtendImage(t)
  PROVE  IInv'
<1> DEFINE c == proc[t]
           p == To(t, "template")
<1>1. /\ TypeOK /\ c \in Commands /\ Sound(c, disk) /\ c.at = "dockerfile" /\ c.wrote = {}
      /\ c.name = "image" /\ c.config # Nothing
  BY DEF IInv, TypeOK, ExtendImage, At, Sound, Safe, Bare, Routed
<1>2. CASE Refuses(t)
  BY <1>1, <1>2, RefusesKeeps
<1>3. CASE /\ Goes(t, p)
           /\ c.config[1].dockerfile = "none" =>
                checkAdoptable(disk.dockerfile["default"]) /\ checkWritable({"config"})
  <2>1. p \in Commands /\ p.at = "template" /\ Continues(p, c, "none") /\ p.plan = c.plan
    BY <1>1, ToContinues DEF Points
  <2>2. c.config[1].dockerfile = "none" => disk.dockerfile["default"] # "other" /\ "config" \notin disk.outside
    BY <1>3 DEF checkAdoptable, checkWritable
  <2> HIDE DEF p, c
  <2>3. Safe(p, disk)
    BY <1>1, <2>1, <2>2 DEF Safe, Routed, Bare, Checked, Planning, Continues
  <2>4. ASSUME p.touched = {} PROVE Registers(p, disk) /\ Read(p, disk)
    BY <1>1, <2>1, <2>2, <2>4 DEF Sound, Achieves, Registers, Read, Planning, Continues
  <2>5. QED
    BY <1>1, <1>3, <2>1, <2>3, <2>4, MovesKeep DEF Continues, c
<1>4. QED
  BY <1>2, <1>3 DEF ExtendImage, configuredDockerfile

LEMMA IgnoreCheckKeeps ==
  ASSUME IInv, NEW t \in Terminals, CheckIgnore(t)
  PROVE  IInv'
<1> DEFINE c == proc[t]
           p == To(t, "template")
<1>1. TypeOK /\ c \in Commands /\ Sound(c, disk) /\ c.at = "check ignore" /\ c.wrote = {}
      /\ c.name = "local" /\ c.config # Nothing
  BY DEF IInv, TypeOK, CheckIgnore, At, Sound, Safe, Bare, Routed
<1>2. CASE Refuses(t)
  BY <1>1, <1>2, RefusesKeeps
<1>3. CASE Goes(t, p)
  <2>1. p \in Commands /\ p.at = "template" /\ Continues(p, c, "none") /\ p.plan = c.plan
    BY <1>1, ToContinues DEF Points
  <2> HIDE DEF p, c
  <2>2. Safe(p, disk)
    BY <1>1, <2>1 DEF Safe, Routed, Bare, Checked, Planning, Continues
  <2>3. ASSUME p.touched = {} PROVE Registers(p, disk) /\ Read(p, disk)
    BY <1>1, <2>1, <2>3 DEF Sound, Achieves, Registers, Read, Planning, Continues
  <2>4. QED
    BY <1>1, <1>3, <2>1, <2>2, <2>3, MovesKeep DEF Continues, c
<1>4. QED
  BY <1>2, <1>3 DEF CheckIgnore

(* One write that has nothing to do with the recipes' entries but for those *)
(* that stay as they are.                                                   *)
LEMMA OneWriteKeeps ==
  ASSUME IInv, NEW t \in Terminals, NEW p \in Commands, NEW f \in Written, Writes(t, f, p),
         disk' \in Disk, disk'.outside = disk.outside,
         p.added = proc[t].added, p.touched = proc[t].touched, p.name = proc[t].name,
         p.at \in {"register", "ignore", "done"}, p.name # "add",
         p.at # "register" \/ "config" \notin disk.outside, p.at = "register" => p.name = "image" /\ p.config # Nothing,
         p.at = "ignore" => p.name = "local",
         p.touched = {} => /\ \A q \in Recipes : Holds(disk, q) => Holds(disk', q)
                           /\ Registers([p EXCEPT !.wrote = @ \cup {f}], disk')
                           /\ p.at = "register" => p.config = <<disk'.config>>
  PROVE  IInv'
<1> DEFINE q == [p EXCEPT !.wrote = @ \cup {f}]
<1>1. /\ q.at = p.at /\ q.name = p.name /\ q.added = p.added /\ q.touched = p.touched /\ q.config = p.config
  BY DEF Commands
<1>2. p.added \subseteq Recipes
  BY DEF Commands
<1>3. p.touched = {} => Registers(q, disk')
  OBVIOUS
<1> HIDE DEF q
<1>4. Safe(q, disk')
  BY <1>1 DEF Safe, Routed, Bare, Checked, Planning
<1>5. ASSUME q.touched = {} PROVE Adds(q, disk')
  <2>1. \A x \in p.added : Holds(disk, x)
    BY <1>1, <1>5 DEF IInv, Sound, Achieves, Adds
  <2>2. \A x \in q.added : Holds(disk', x)
    BY <1>1, <1>2, <1>5, <2>1
  <2>3. QED
    BY <1>1, <2>2 DEF Adds
<1>6. q.touched = {} => Read(q, disk')
  BY <1>1 DEF Read, Planning
<1>7. Sound(q, disk')
  BY <1>1, <1>3, <1>4, <1>5, <1>6 DEF Sound, Achieves
<1>8. QED
  BY <1>7, WritesKeeps DEF q

LEMMA LocalKeeps ==
  ASSUME IInv, NEW t \in Terminals, writeLocalOnce(t)
  PROVE  IInv'
<1> DEFINE c == proc[t]
           p == To(t, "ignore")
<1>1. TypeOK /\ c \in Commands /\ Sound(c, disk) /\ c.name = "local" /\ disk \in Disk
  BY DEF IInv, TypeOK, writeLocalOnce
<1>2. p \in Commands /\ p.at = "ignore" /\ Continues(p, c, "none")
  BY <1>1, ToContinues DEF Points
<1>3. CASE Fails(t)
  BY <1>3, FailsKeeps
<1>4. CASE disk.local # "none" /\ Goes(t, p)
  <2> HIDE DEF p, c
  <2>1. Safe(p, disk) /\ Registers(p, disk) /\ Read(p, disk)
    BY <1>1, <1>2, <1>4 DEF Safe, Routed, Bare, Checked, Registers, Read, Planning, Continues
  <2>2. QED
    BY <1>1, <1>2, <1>4, <2>1, MovesKeep DEF Continues, c
<1>5. CASE disk' = [disk EXCEPT !.local = "recipe"] /\ Writes(t, "local", p)
  <2>1. /\ disk' \in Disk /\ disk'.outside = disk.outside /\ disk'.local = "recipe" /\ disk'.compose = disk.compose
        /\ disk'.config = disk.config /\ disk'.env = disk.env /\ disk'.files = disk.files
    BY <1>1, <1>5 DEF Disk, Whose
  <2>2. \A q \in Recipes : Holds(disk, q) => Holds(disk', q)
    BY <2>1 DEF Holds
  <2> DEFINE q == [p EXCEPT !.wrote = @ \cup {"local"}]
  <2>3. q.at = "ignore"
    BY <1>2 DEF Commands
  <2> HIDE DEF p, q, c
  <2>4. Registers(q, disk')
    BY <2>1, <2>3 DEF Registers
  <2>5. "local" \in Written
    BY DEF Written
  <2>6. QED
    BY <1>1, <1>2, <1>5, <2>1, <2>2, <2>4, <2>5, OneWriteKeeps DEF Continues, c, q
<1>6. QED
  BY <1>3, <1>4, <1>5 DEF writeLocalOnce

LEMMA IgnoreKeeps ==
  ASSUME IInv, NEW t \in Terminals, ignoreLocalOverride(t)
  PROVE  IInv'
<1> DEFINE c == proc[t]
           p == Ends(t, "done")
<1>1. TypeOK /\ c \in Commands /\ Sound(c, disk) /\ c.at = "ignore" /\ c.name = "local" /\ disk \in Disk
  BY DEF IInv, TypeOK, ignoreLocalOverride, At, Sound, Safe, Routed
<1>2. /\ p \in Commands /\ p.at = "done" /\ p.name = c.name /\ p.added = c.added /\ p.touched = c.touched
  BY <1>1, EndsFacts
<1>3. c.touched = {} => disk.local # "none"
  BY <1>1 DEF Sound, Achieves, Registers
<1>4. CASE Fails(t)
  BY <1>4, FailsKeeps
<1>5. CASE disk.gitignore # "plain" /\ Goes(t, p)
  <2> HIDE DEF p, c
  <2>1. Safe(p, disk) /\ (p.touched = {} => Registers(p, disk) /\ Read(p, disk))
    BY <1>1, <1>2, <1>3, <1>5 DEF Safe, Routed, Bare, Checked, Registers, Read, Planning
  <2>2. QED
    BY <1>1, <1>2, <1>5, <2>1, MovesKeep DEF c
<1>6. CASE disk' = [disk EXCEPT !.gitignore = "lists"] /\ Writes(t, "gitignore", p)
  <2>1. /\ disk' \in Disk /\ disk'.outside = disk.outside /\ disk'.local = disk.local /\ disk'.gitignore = "lists"
        /\ disk'.compose = disk.compose /\ disk'.config = disk.config
        /\ disk'.env = disk.env /\ disk'.files = disk.files
    BY <1>1, <1>6 DEF Disk
  <2>2. \A q \in Recipes : Holds(disk, q) => Holds(disk', q)
    BY <2>1 DEF Holds
  <2> DEFINE q == [p EXCEPT !.wrote = @ \cup {"gitignore"}]
  <2>3. q.at = "done" /\ q.name = "local"
    BY <1>1, <1>2 DEF Commands
  <2> HIDE DEF p, q, c
  <2>4. p.touched = {} => Registers(q, disk')
    BY <1>2, <1>3, <2>1, <2>3 DEF Registers
  <2>5. "gitignore" \in Written
    BY DEF Written, Linkable
  <2>6. QED
    BY <1>1, <1>2, <1>6, <2>1, <2>2, <2>4, <2>5, OneWriteKeeps DEF c, q
<1>7. CASE ~Fails(t)
  <2>1. disk.gitignore \in {"none", "plain", "lists", "unreadable"}
    BY <1>1 DEF Disk
  <2>2. QED
    BY <1>5, <1>6, <1>7, <2>1 DEF ignoreLocalOverride
<1>8. QED
  BY <1>4, <1>7

LEMMA TemplateKeeps ==
  ASSUME IInv, NEW t \in Terminals, writeTemplateOnce(t)
  PROVE  IInv'
<1> DEFINE c == proc[t]
           p == Ends(t, "done")
<1>1. /\ TypeOK /\ c \in Commands /\ Sound(c, disk) /\ c.at = "template" /\ c.name = "compose" /\ c.wrote = {}
      /\ disk \in Disk
  BY DEF IInv, TypeOK, writeTemplateOnce, At, Sound, Safe, Bare
<1>2. p \in Commands /\ p.at = "done" /\ p.name = c.name /\ p.added = c.added /\ p.touched = c.touched
  BY <1>1, EndsFacts
<1>3. CASE Fails(t)
  BY <1>3, FailsKeeps
<1>4. CASE Refuses(t)
  BY <1>1, <1>4, RefusesKeeps
<1>5. CASE Goes(t, p)
  <2> HIDE DEF p, c
  <2>1. Safe(p, disk) /\ Registers(p, disk) /\ Read(p, disk)
    BY <1>1, <1>2, <1>5 DEF Safe, Routed, Bare, Checked, Registers, Read, Planning
  <2>2. QED
    BY <1>1, <1>2, <1>5, <2>1, MovesKeep DEF c
<1>6. CASE /\ disk' = [disk EXCEPT !.compose.there = TRUE, !.compose.services = "map"]
           /\ Writes(t, "compose", p)
  <2>1. /\ disk' \in Disk /\ disk'.outside = disk.outside /\ disk'.config = disk.config /\ disk'.env = disk.env
        /\ disk'.files = disk.files
        /\ disk'.compose.services = "map" /\ disk'.compose.service = disk.compose.service
    <3>1. [disk.compose EXCEPT !.there = TRUE, !.services = "map"] \in Compose
      BY <1>1 DEF Disk, Compose, Nodes
    <3>2. disk' = [disk EXCEPT !.compose = [disk.compose EXCEPT !.there = TRUE, !.services = "map"]]
      BY <1>1, <1>6 DEF Disk, Compose
    <3>3. QED
      BY <1>1, <3>1, <3>2 DEF Disk, Compose
  <2>2. \A q \in Recipes : Holds(disk, q) => Holds(disk', q)
    BY <2>1 DEF Holds, ComposeHas
  <2> DEFINE q == [p EXCEPT !.wrote = @ \cup {"compose"}]
  <2>3. q.at = "done" /\ q.name = "compose"
    BY <1>1, <1>2 DEF Commands
  <2> HIDE DEF p, q, c
  <2>4. Registers(q, disk')
    BY <2>3 DEF Registers
  <2>5. "compose" \in Written
    BY DEF Written, Linkable
  <2>6. QED
    BY <1>1, <1>2, <1>6, <2>1, <2>2, <2>4, <2>5, OneWriteKeeps DEF c, q
<1>7. QED
  BY <1>3, <1>4, <1>5, <1>6 DEF writeTemplateOnce

LEMMA DockerfileKeeps ==
  ASSUME IInv, NEW t \in Terminals, WriteDockerfile(t)
  PROVE  IInv'
<1> DEFINE c == proc[t]
           g == c.config[1]
           target == Target(t)
           p == IF configuredDockerfile(t) = "none" THEN To(t, "register") ELSE Ends(t, "done")
<1>1. /\ TypeOK /\ c \in Commands /\ Sound(c, disk) /\ c.at = "template" /\ c.name = "image" /\ c.wrote = {}
      /\ c.config # Nothing /\ disk \in Disk
  BY DEF IInv, TypeOK, WriteDockerfile, At, Sound, Safe, Bare, Routed
<1>2. g \in Config /\ (c.touched = {} => g = disk.config)
  BY <1>1 DEF Commands, Maybe, Sound, Achieves, Read
<1>3. target \in {"default", "own"} /\ (g.dockerfile = "none" => target = "default")
      /\ (g.dockerfile # "none" => target = g.dockerfile)
  BY <1>2 DEF Target, configuredDockerfile, Config
<1>4. /\ p \in Commands /\ p.at = (IF g.dockerfile = "none" THEN "register" ELSE "done")
      /\ p.name = c.name /\ p.added = c.added /\ p.touched = c.touched /\ p.wrote = c.wrote
      /\ g.dockerfile = "none" => p.config = c.config
  <2>1. CASE g.dockerfile = "none"
    <3>1. "register" \in Points
      BY Zenon DEF Points
    <3>2. QED
      BY <1>1, <2>1, <3>1, ToFacts DEF configuredDockerfile
  <2>2. CASE g.dockerfile # "none"
    BY <1>1, <2>2, EndsFacts DEF configuredDockerfile
  <2>3. QED
    BY <2>1, <2>2
<1>5. /\ g.dockerfile = "none" => "config" \notin disk.outside
      /\ c.touched = {} /\ g.dockerfile = "none" => disk.dockerfile["default"] # "other"
      /\ c.touched = {} => c.config = <<disk.config>>
  BY <1>1 DEF Sound, Safe, Checked, Achieves, Registers, Read
<1>6. CASE Fails(t)
  BY <1>6, FailsKeeps
<1>7. CASE Refuses(t)
  BY <1>1, <1>7, RefusesKeeps
<1>8. CASE disk.dockerfile[target] # "none" /\ Goes(t, p)
  <2> HIDE DEF p, target, c
  <2>1. Safe(p, disk)
    BY <1>1, <1>4, <1>5 DEF Safe, Routed, Bare, Checked, Planning
  <2>2. ASSUME p.touched = {} PROVE Registers(p, disk) /\ Read(p, disk)
    BY <1>1, <1>2, <1>3, <1>4, <1>5, <1>8, <2>2 DEF Registers, Read, Planning
  <2>3. QED
    BY <1>1, <1>4, <1>8, <2>1, <2>2, MovesKeep DEF c
<1>9. CASE disk' = [disk EXCEPT !.dockerfile[target] = "template"] /\ Writes(t, "dockerfile", p)
  <2> HIDE DEF target
  <2>1. /\ disk' \in Disk /\ disk'.outside = disk.outside /\ disk'.compose = disk.compose
        /\ disk'.config = disk.config /\ disk'.env = disk.env /\ disk'.files = disk.files
        /\ disk'.dockerfile[target] = "template"
    BY <1>1, <1>3, <1>9 DEF Disk, Dockerfiles
  <2>2. \A q \in Recipes : Holds(disk, q) => Holds(disk', q)
    BY <2>1 DEF Holds
  <2> DEFINE q == [p EXCEPT !.wrote = @ \cup {"dockerfile"}]
  <2> HIDE DEF p
  <2>3. q.at = p.at /\ q.name = p.name /\ q.config = p.config /\ q.wrote = {"dockerfile"}
    BY <1>1, <1>4 DEF Commands
  <2> HIDE DEF q, c
  <2>4. ASSUME p.touched = {} PROVE Registers(q, disk')
    BY <1>1, <1>2, <1>3, <1>4, <2>1, <2>3, <2>4 DEF Registers
  <2>5. "dockerfile" \in Written
    BY DEF Written
  <2>6. QED
    BY <1>1, <1>4, <1>5, <1>9, <2>1, <2>2, <2>4, <2>5, OneWriteKeeps DEF c, q
<1>10. QED
  BY <1>6, <1>7, <1>8, <1>9 DEF WriteDockerfile

LEMMA RegisterKeeps ==
  ASSUME IInv, NEW t \in Terminals, RegisterDockerfile(t)
  PROVE  IInv'
<1> DEFINE c == proc[t]
           g == c.config[1]
           p == Ends(t, "done")
<1>1. /\ TypeOK /\ c \in Commands /\ Sound(c, disk) /\ c.at = "register" /\ c.name = "image" /\ c.config # Nothing
      /\ disk \in Disk /\ "config" \notin disk.outside
  BY DEF IInv, TypeOK, RegisterDockerfile, At, Sound, Safe, Checked, Routed
<1>2. /\ g \in Config /\ (c.touched = {} => g = disk.config)
      /\ c.touched = {} => disk.dockerfile["default"] \notin {"none", "other"}
  BY <1>1 DEF Commands, Maybe, Sound, Achieves, Read, Registers
<1>3. p \in Commands /\ p.at = "done" /\ p.name = c.name /\ p.added = c.added /\ p.touched = c.touched
  BY <1>1, EndsFacts
<1>4. checkWritable({"config"})
  BY <1>1 DEF checkWritable
<1>5. CASE Fails(t)
  BY <1>5, FailsKeeps
<1>6. CASE disk' = [disk EXCEPT !.config = SetScalar(g)] /\ Writes(t, "config", p)
  <2>1. SetScalar(g) \in Config /\ SetScalar(g).dockerfile = "default" /\ SetScalar(g).extension = g.extension
        /\ SetScalar(g).ini = g.ini /\ SetScalar(g).directive = g.directive
    BY <1>2 DEF SetScalar, Config, Nodes
  <2>2. /\ disk' \in Disk /\ disk'.outside = disk.outside /\ disk'.compose = disk.compose
        /\ disk'.env = disk.env /\ disk'.files = disk.files /\ disk'.dockerfile = disk.dockerfile
        /\ disk'.config = SetScalar(g)
    BY <1>1, <1>6, <2>1 DEF Disk
  <2>3. c.touched = {} => \A q \in Recipes : Holds(disk, q) => Holds(disk', q)
    BY <1>2, <2>1, <2>2 DEF Holds, ConfigHas
  <2> DEFINE q == [p EXCEPT !.wrote = @ \cup {"config"}]
  <2> HIDE DEF p, g
  <2>4. q.at = "done" /\ q.name = "image"
    BY <1>1, <1>3 DEF Commands
  <2> HIDE DEF q, c
  <2>5. ASSUME p.touched = {} PROVE Registers(q, disk')
    BY <1>2, <1>3, <2>1, <2>2, <2>4, <2>5 DEF Registers
  <2>6. "config" \in Written
    BY DEF Written, Linkable
  <2>7. QED
    BY <1>1, <1>3, <1>6, <2>2, <2>3, <2>5, <2>6, OneWriteKeeps DEF c, q
<1>7. QED
  BY <1>4, <1>5, <1>6 DEF RegisterDockerfile

LEMMA UpKeeps ==
  ASSUME IInv, NEW t \in Terminals, writeEnvFile(t)
  PROVE  IInv'
<1> DEFINE c == proc[t]
           p == Ends(t, "done")
<1>1. TypeOK /\ c \in Commands /\ Sound(c, disk) /\ c.name = "up" /\ Goes(t, p)
  BY DEF IInv, TypeOK, writeEnvFile, At, Sound, Safe, Routed
<1>2. p \in Commands /\ p.at = "done" /\ p.name = c.name /\ p.added = c.added /\ p.touched = c.touched
  BY <1>1, EndsFacts
<1> HIDE DEF p, c
<1>3. Safe(p, disk) /\ Registers(p, disk) /\ Read(p, disk)
  BY <1>1, <1>2 DEF Safe, Routed, Bare, Checked, Registers, Read, Planning
<1>4. QED
  BY <1>1, <1>2, <1>3, MovesKeep DEF c

-----------------------------------------------------------------------------
(* The theorems.                                                            *)

LEMMA InitEstablishes == Init => IInv
<1> SUFFICES ASSUME Init PROVE IInv
  OBVIOUS
<1>1. disk \in Disk
  BY DiskAssumption DEF DiskAssumption, Init
<1>2. \A t \in Terminals : proc[t] = Idle
  BY DEF Init
<1>3. proc \in [Terminals -> Commands]
  BY IdleFacts DEF Init
<1>4. QED
  BY <1>1, <1>2, <1>3, IdleFacts DEF IInv, TypeOK

LEMMA StepKeeps == IInv /\ [Next]_vars => IInv'
<1> SUFFICES ASSUME IInv, [Next]_vars PROVE IInv'
  OBVIOUS
<1>1. CASE Edit
  BY <1>1, EditKeeps
<1>2. CASE UNCHANGED vars
  BY <1>2 DEF vars, IInv, TypeOK
<1>3. ASSUME NEW t \in Terminals,
             \/ Start(t) \/ openProject(t)
             \/ planRecipeCompose(t) \/ planRecipeConfig(t) \/ planRecipeEnv(t) \/ planRecipeFiles(t)
             \/ CheckPlan(t) \/ writeInsideProject(t) \/ RecipeAdded(t)
      PROVE  IInv'
  BY <1>3, StartKeeps, OpenKeeps, PlanComposeKeeps, PlanConfigKeeps, PlanEnvKeeps, PlanFilesKeeps,
     CheckPlanKeeps, WriteKeeps, AddedKeeps
<1>4. ASSUME NEW t \in Terminals,
             \/ ExtendImage(t) \/ WriteDockerfile(t) \/ RegisterDockerfile(t)
             \/ CheckIgnore(t) \/ writeTemplateOnce(t) \/ writeLocalOnce(t) \/ ignoreLocalOverride(t)
             \/ writeEnvFile(t)
      PROVE  IInv'
  BY <1>4, ImageKeeps, DockerfileKeeps, RegisterKeeps, IgnoreCheckKeeps, TemplateKeeps, LocalKeeps,
     IgnoreKeeps, UpKeeps
<1>5. QED
  BY <1>1, <1>2, <1>3, <1>4 DEF Next

LEMMA Inductive == Spec => []IInv
<1>1. Init => IInv
  BY InitEstablishes
<1>2. IInv /\ [Next]_vars => IInv'
  BY StepKeeps
<1>3. QED
  BY <1>1, <1>2, PTL DEF Spec

(* The disk and the commands are of their types: every file written is      *)
(* well-formed, and nothing but a recipe is added.                          *)
THEOREM TypeCorrect == Spec => []TypeOK
<1>1. IInv => TypeOK
  BY DEF IInv
<1>2. QED
  BY <1>1, Inductive, PTL

(* A command that reports a refusal wrote nothing, or nothing of the recipe *)
(* it was refused at: AddRecipe's "a refused recipe leaves the project      *)
(* exactly as it was".                                                      *)
THEOREM RefusalsLeaveTheProject == Spec => []RefusedChangesNothing
<1>1. IInv => RefusedChangesNothing
  BY DEF IInv, Sound, Safe, Bare, RefusedChangesNothing, At
<1>2. QED
  BY <1>1, Inductive, PTL

(* A command that nobody disturbed and that reports success did all of its  *)
(* job, whatever failed before.                                             *)
THEOREM SuccessIsInEffect == Spec => []DoneMeansInEffect
<1>1. IInv => DoneMeansInEffect
  <2> SUFFICES ASSUME IInv, NEW t \in Terminals, At(t, "done"), proc[t].touched = {}
               PROVE  /\ \A r \in proc[t].added : InEffect(r)
                      /\ proc[t].name = "image" => LayerIsConfigured(t)
                      /\ proc[t].name = "local" => disk.local # "none" /\ disk.gitignore # "plain"
    BY DEF DoneMeansInEffect
  <2>1. Adds(proc[t], disk) /\ Registers(proc[t], disk) /\ proc[t].at = "done"
    BY DEF IInv, Sound, Achieves, At
  <2>2. \A r \in proc[t].added : InEffect(r)
    BY <2>1 DEF Adds, Holds, ComposeHas, ConfigHas, EnvHas, FilesHave, InEffect
  <2>3. proc[t].name = "image" => LayerIsConfigured(t)
    BY <2>1 DEF Registers, LayerIsConfigured
  <2>4. proc[t].name = "local" => disk.local # "none" /\ disk.gitignore # "plain"
    BY <2>1 DEF Registers
  <2>5. QED
    BY <2>2, <2>3, <2>4
<1>2. QED
  BY <1>1, Inductive, PTL

-----------------------------------------------------------------------------
(* A project value wins. What a command is about to write keeps what is in  *)
(* the file, unless somebody else has written the file since it started.    *)

KeepsCompose(p, d) ==
  p.plan.compose # Nothing /\ "compose" \notin p.touched =>
    \A q \in Recipes : \/ p.plan.compose[1].service[q] = d.compose.service[q]
                       \/ q = Head(p.names) /\ (p.force \/ d.compose.service[q] = "none")
Extends(g, h) ==
  /\ g.dockerfile = h.dockerfile \/ h.dockerfile = "none"
  /\ g.extension = h.extension \/ h.extension = "none"
  /\ g.directive = h.directive \/ h.directive = "none"
KeepsConfig(p, d) ==
  p.plan.config # Nothing /\ "config" \notin p.touched => Extends(p.plan.config[1], d.config)
RecipeLine == [key |-> RecipeKey, value |-> <<>>, by |-> "recipe"]
KeepsEnv(p, d) ==
  p.plan.env # Nothing /\ "env" \notin p.touched =>
    p.plan.env[1].lines = Append(d.env.lines, RecipeLine) /\ RecipeKey \notin KeysOf(d.env.lines)
KeepsFiles(p) == p.plan.files # Nothing => "files" \in p.new

Keeping(p, d) ==
  /\ p.at \in Planning \cup {"write"} =>
       /\ KeepsCompose(p, d) /\ KeepsConfig(p, d) /\ KeepsEnv(p, d) /\ KeepsFiles(p)
       /\ \A f \in PlannedFiles : p.plan[f] # Nothing => f \notin p.wrote
  /\ p.at \in Planning \cup {"dockerfile", "check ignore", "template", "register"} /\ "config" \notin p.touched =>
       p.config = <<d.config>>
  /\ p.at = "register" => p.config[1].dockerfile = "none" /\ "config" \notin p.wrote

KInv == \A t \in Terminals : Keeping(proc[t], disk)

(* d and e differ in the file f only, of those that commands plan for.      *)
Frame(d, e, f) ==
  /\ f # "compose" => e.compose = d.compose
  /\ f # "config" => e.config = d.config
  /\ f # "env" => e.env = d.env

LEMMA Restful == \A p, d : p.at \in {"idle", "open", "ignore", "up", "done", "refused", "failed"} => Keeping(p, d)
BY DEF Keeping, Planning

LEMMA TouchKeeping ==
  ASSUME NEW p \in Commands, NEW d, NEW e, Keeping(p, d), NEW f \in Written, Frame(d, e, f)
  PROVE  Keeping(Touch(p, f), e)
<1>1. CASE p.at \in Finished
  <2>1. Touch(p, f).at = "idle"
    BY <1>1 DEF Touch, Idle
  <2>2. QED
    BY <2>1, Restful
<1>2. CASE p.at \notin Finished
  <2> DEFINE q == [p EXCEPT !.touched = @ \cup {f}]
  <2>1. Touch(p, f) = q
    BY <1>2 DEF Touch
  <2>2. /\ q.at = p.at /\ q.name = p.name /\ q.names = p.names /\ q.config = p.config /\ q.new = p.new
        /\ q.plan = p.plan /\ q.wrote = p.wrote /\ q.touched = p.touched \cup {f}
    BY DEF Commands
  <2>3. q.force = p.force
    BY DEF Commands
  <2> HIDE DEF q
  <2>4. p.at \in Planning \cup {"write"} => KeepsCompose(q, e) /\ KeepsConfig(q, e) /\ KeepsEnv(q, e) /\ KeepsFiles(q)
    BY <2>2, <2>3 DEF Keeping, KeepsCompose, KeepsConfig, KeepsEnv, KeepsFiles, Frame
  <2>5. Keeping(q, e)
    BY <2>2, <2>4 DEF Keeping, Frame
  <2>6. QED
    BY <2>1, <2>5
<1>3. QED
  BY <1>1, <1>2

LEMMA GoesKeeping ==
  ASSUME TypeOK, KInv, NEW t \in Terminals, NEW p, Goes(t, p), Keeping(p, disk)
  PROVE  KInv'
BY DEF TypeOK, KInv, Goes

LEMMA WritesKeeping ==
  ASSUME TypeOK, KInv, NEW t \in Terminals, NEW p, NEW f \in Written, Writes(t, f, p),
         Frame(disk, disk', f), Keeping([p EXCEPT !.wrote = @ \cup {f}], disk')
  PROVE  KInv'
<1> DEFINE q == [p EXCEPT !.wrote = @ \cup {f}]
<1>1. \A u \in Terminals : Keeping(Touch(proc[u], f), disk')
  BY TouchKeeping DEF TypeOK, KInv
<1>2. \A u \in Terminals : proc'[u] = IF u = t THEN q ELSE Touch(proc[u], f)
  BY DEF Writes
<1> HIDE DEF q
<1>3. \A u \in Terminals : Keeping(proc'[u], disk')
  BY <1>1, <1>2 DEF q
<1>4. QED
  BY <1>3 DEF KInv

LEMMA EditKeeping ==
  ASSUME TypeOK, KInv, Edit
  PROVE  KInv'
<1>1. PICK e \in Edits : /\ disk' = [disk EXCEPT ![e[1]] = e[2]]
                         /\ proc' = [t \in Terminals |-> Touch(proc[t], e[1])]
  BY DEF Edit
<1>2. e[1] \in Written
  BY DiskAssumption DEF DiskAssumption, Written, Linkable
<1>3. Frame(disk, disk', e[1])
  BY <1>1 DEF TypeOK, Disk, Frame
<1>4. \A t \in Terminals : Keeping(Touch(proc[t], e[1]), disk')
  BY <1>2, <1>3, TouchKeeping DEF TypeOK, KInv
<1>5. QED
  BY <1>1, <1>4 DEF KInv

LEMMA OpenKeeping ==
  ASSUME IInv, KInv, NEW t \in Terminals, openProject(t)
  PROVE  KInv'
<1> DEFINE next == CASE proc[t].name = "add" -> "compose" [] proc[t].name = "image" -> "dockerfile"
                     [] proc[t].name = "compose" -> "template" [] OTHER -> "check ignore"
           p == [To(t, next) EXCEPT !.config = <<disk.config>>, !.wrote = {}]
<1>1. TypeOK /\ proc[t] \in Commands /\ Sound(proc[t], disk) /\ proc[t].at = "open"
  BY DEF IInv, TypeOK, openProject, At
<1>2. /\ proc[t].plan.compose = Nothing /\ proc[t].plan.config = Nothing
      /\ proc[t].plan.env = Nothing /\ proc[t].plan.files = Nothing
  BY <1>1 DEF Sound, Safe, Routed
<1>3. next # "register" /\ next # "write"
  OBVIOUS
<1> HIDE DEF next
<1>4. p.at = next /\ p.config = <<disk.config>> /\ p.wrote = {} /\ p.plan = proc[t].plan
  BY <1>1 DEF To, Commands
<1> HIDE DEF p
<1>5. Keeping(p, disk)
  BY <1>2, <1>3, <1>4 DEF Keeping, KeepsCompose, KeepsConfig, KeepsEnv, KeepsFiles
<1>6. QED
  BY <1>1, <1>5, GoesKeeping DEF openProject, p, next

(* A point of the plan that adds a file to it, or none.                     *)
LEMMA PlanKeeping ==
  ASSUME IInv, KInv, NEW t \in Terminals, NEW p, Goes(t, p), proc[t].at \in Planning,
         NEW f \in PlannedFiles, Continues(p, proc[t], f), p.at \in Planning \cup {"write"},
         p.force = proc[t].force, proc[t].new \subseteq p.new \/ f = "compose",
         f = "compose" => KeepsCompose(p, disk) /\ p.plan.files = Nothing,
         f = "config" => KeepsConfig(p, disk),
         f = "env" => KeepsEnv(p, disk),
         f = "files" => KeepsFiles(p)
  PROVE  KInv'
<1>1. TypeOK /\ proc[t].wrote = {} /\ Keeping(proc[t], disk)
  BY DEF IInv, KInv, Sound, Safe, Bare
<1>2. /\ p.names = proc[t].names /\ p.config = proc[t].config /\ p.wrote = {} /\ p.touched = proc[t].touched
      /\ \A g \in PlannedFiles \ {f} : p.plan[g] = proc[t].plan[g]
  BY <1>1 DEF Continues
<1>3. /\ f # "compose" => p.plan.compose = proc[t].plan.compose
      /\ f # "config" => p.plan.config = proc[t].plan.config
      /\ f # "env" => p.plan.env = proc[t].plan.env
      /\ f # "files" => p.plan.files = proc[t].plan.files
  BY <1>2 DEF PlannedFiles
<1>4. KeepsCompose(p, disk)
  BY <1>1, <1>2, <1>3 DEF Keeping, KeepsCompose
<1>5. KeepsConfig(p, disk)
  BY <1>1, <1>2, <1>3 DEF Keeping, KeepsConfig
<1>6. KeepsEnv(p, disk)
  BY <1>1, <1>2, <1>3 DEF Keeping, KeepsEnv
<1>7. KeepsFiles(p)
  BY <1>1, <1>2, <1>3 DEF Keeping, KeepsFiles
<1>8. "config" \notin p.touched => p.config = <<disk.config>>
  BY <1>1, <1>2 DEF Keeping
<1>9. p.at # "register"
  BY DEF Planning
<1>10. Keeping(p, disk)
  BY <1>2, <1>4, <1>5, <1>6, <1>7, <1>8, <1>9 DEF Keeping
<1>11. QED
  BY <1>1, <1>10, GoesKeeping

LEMMA RefusesKeeping ==
  ASSUME IInv, KInv, NEW t \in Terminals, Refuses(t) \/ Fails(t)
  PROVE  KInv'
<1>1. Keeping(Ends(t, "refused"), disk) /\ Keeping(Ends(t, "failed"), disk)
  BY EndsFacts, Restful DEF IInv
<1>2. QED
  BY <1>1, GoesKeeping DEF IInv, Refuses, Fails

LEMMA PlanStepsKeeping ==
  ASSUME IInv, KInv, NEW t \in Terminals,
         \/ planRecipeCompose(t) \/ planRecipeConfig(t) \/ planRecipeEnv(t) \/ planRecipeFiles(t)
         \/ CheckPlan(t)
  PROVE  KInv'
<1> DEFINE c == proc[t]
           r == Recipe(t)
<1>1. TypeOK /\ c \in Commands /\ Sound(c, disk) /\ Keeping(c, disk) /\ r = Head(c.names)
  BY DEF IInv, TypeOK, KInv, Recipe
<1>2. CASE Refuses(t)
  BY <1>2, RefusesKeeping
<1>3. ASSUME NEW point \in {"env", "files", "check", "write"}, Goes(t, To(t, point)), c.at \in Planning PROVE KInv'
  <2>1. point \in Points /\ point \in Planning \cup {"write"} /\ "files" \in PlannedFiles
    BY <1>3, Zenon DEF Points, Planning, PlannedFiles
  <2> DEFINE p == To(t, point)
  <2>2. /\ p.at = point /\ Continues(p, c, "files") /\ p.force = c.force /\ p.new = c.new /\ p.plan = c.plan
    BY <1>1, <2>1, ToContinues, ToFacts
  <2> HIDE DEF p
  <2>3. KeepsFiles(p)
    BY <1>1, <1>3, <2>2 DEF Keeping, KeepsFiles
  <2>4. QED
    BY <1>3, <2>1, <2>2, <2>3, PlanKeeping DEF p
<1>4. CASE planRecipeCompose(t) /\ ~Refuses(t)
  <2> DEFINE d == disk.compose
             after == [d EXCEPT !.there = TRUE, !.services = "map", !.service[r] = MergeMapping(@, c.force)]
             planned == finishYAMLPlan(d, after)
             p == [To(t, "config") EXCEPT !.new = IF d.there THEN {} ELSE {"compose"}, !.plan.compose = planned]
  <2>1. Goes(t, p) /\ c.at = "compose" /\ c.plan.files = Nothing /\ d \in Compose /\ r \in Recipes
    BY <1>1, <1>4 DEF planRecipeCompose, At, Sound, Safe, Routed, Planning, Commands, TypeOK, Disk
  <2>2. /\ p.at = "config" /\ p.force = c.force /\ p.names = c.names /\ p.plan.compose = planned
        /\ p.plan.files = c.plan.files /\ Continues(p, c, "compose")
    BY <1>1 DEF To, Commands, Plans, PlannedFiles, Continues
  <2>3. after.service = [d.service EXCEPT ![r] = MergeMapping(d.service[r], c.force)]
    BY <2>1 DEF Compose
  <2>4. ASSUME planned # Nothing, NEW q \in Recipes
        PROVE  planned[1].service[q] = d.service[q] \/ (q = r /\ (c.force \/ d.service[q] = "none"))
    <3>1. planned[1] = after
      BY <2>4 DEF finishYAMLPlan
    <3> HIDE DEF after, planned
    <3>2. q # r => after.service[q] = d.service[q]
      BY <2>1, <2>3 DEF Compose
    <3>3. after.service[r] = MergeMapping(d.service[r], c.force)
      BY <2>1, <2>3 DEF Compose
    <3>4. MergeMapping(d.service[r], c.force) = d.service[r] \/ c.force \/ d.service[r] = "none"
      BY Zenon DEF MergeMapping
    <3>5. CASE q # r
      BY <3>1, <3>2, <3>5
    <3>6. CASE q = r
      <4>1. planned[1].service[q] = MergeMapping(d.service[r], c.force)
        BY <3>1, <3>3, <3>6
      <4>2. MergeMapping(d.service[r], c.force) = d.service[q] \/ c.force \/ d.service[q] = "none"
        BY <3>4, <3>6
      <4>3. QED
        BY <3>6, <4>1, <4>2, Zenon
    <3>7. QED
      BY <3>5, <3>6
  <2> HIDE DEF p, planned
  <2>5. KeepsCompose(p, disk)
    BY <1>1, <2>2, <2>4 DEF KeepsCompose
  <2>6. QED
    BY <2>1, <2>2, <2>5, PlanKeeping DEF Planning, PlannedFiles
<1>5. CASE planRecipeConfig(t) /\ ~Refuses(t)
  <2> DEFINE g == c.config[1]
             planned == finishYAMLPlan(g, mergeRecipeConfig(g))
             p == [To(t, "env") EXCEPT !.plan.config = planned]
  <2>1. c.at = "config" /\ c.config # Nothing
    BY <1>1, <1>5 DEF planRecipeConfig, At, Sound, Safe, Routed, Planning
  <2>2. g \in Config /\ ("config" \notin c.touched => g = disk.config)
    BY <1>1, <2>1 DEF Commands, Maybe, Keeping, Planning
  <2>3. CASE Goes(t, To(t, "env"))
    BY <1>3, <2>1, <2>3 DEF Planning
  <2>4. CASE Goes(t, p)
    <3>1. /\ p.at = "env" /\ p.force = c.force /\ p.touched = c.touched /\ p.plan.config = planned
          /\ p.new = c.new /\ Continues(p, c, "config")
      BY <1>1 DEF To, Commands, Plans, PlannedFiles, Continues
    <3>2. planned # Nothing => Extends(planned[1], g)
      <4>1. planned # Nothing => planned[1] = mergeRecipeConfig(g)
        BY DEF finishYAMLPlan
      <4>2. Extends(mergeRecipeConfig(g), g)
        BY <2>2 DEF mergeRecipeConfig, Extends, Config, AppendUnique, MergeMapping
      <4>3. QED
        BY <4>1, <4>2
    <3> HIDE DEF p, planned
    <3>3. KeepsConfig(p, disk)
      BY <2>2, <3>1, <3>2 DEF KeepsConfig
    <3>4. QED
      BY <2>1, <2>4, <3>1, <3>3, PlanKeeping DEF Planning, PlannedFiles
  <2>5. QED
    BY <1>5, <2>3, <2>4 DEF planRecipeConfig
<1>6. CASE planRecipeEnv(t)
  <2> DEFINE after == [there |-> TRUE, lines |-> Append(disk.env.lines, RecipeLine)]
             p == [To(t, "files") EXCEPT !.plan.env = <<after>>,
                                         !.new = @ \cup (IF disk.env.there THEN {} ELSE {"env"})]
  <2>1. c.at = "env"
    BY <1>6 DEF planRecipeEnv, At
  <2>2. CASE Goes(t, To(t, "files"))
    BY <1>3, <2>1, <2>2 DEF Planning
  <2>3. CASE RecipeKey \notin KeysOf(disk.env.lines) /\ Goes(t, p)
    <3>1. /\ p.at = "files" /\ p.force = c.force /\ p.plan.env = <<after>>
          /\ c.new \subseteq p.new /\ Continues(p, c, "env")
      BY <1>1 DEF To, Commands, Plans, PlannedFiles, Continues
    <3>2. KeepsEnv(p, disk)
      BY <2>3, <3>1 DEF KeepsEnv
    <3> HIDE DEF p
    <3>3. QED
      BY <2>1, <2>3, <3>1, <3>2, PlanKeeping DEF Planning, PlannedFiles
  <2>4. QED
    BY <1>6, <2>2, <2>3 DEF planRecipeEnv, envKeys, RecipeLine
<1>7. CASE planRecipeFiles(t)
  <2> DEFINE p == [To(t, "check") EXCEPT !.plan.files = <<"recipe">>, !.new = @ \cup {"files"}]
  <2>1. c.at = "files"
    BY <1>7 DEF planRecipeFiles, At
  <2>2. CASE Goes(t, To(t, "check"))
    BY <1>3, <2>1, <2>2 DEF Planning
  <2>3. CASE Goes(t, p)
    <3>1. /\ p.at = "check" /\ p.force = c.force /\ c.new \subseteq p.new /\ "files" \in p.new
          /\ Continues(p, c, "files")
      BY <1>1 DEF To, Commands, Plans, PlannedFiles, Continues
    <3>2. KeepsFiles(p)
      BY <3>1 DEF KeepsFiles
    <3> HIDE DEF p
    <3>3. QED
      BY <2>1, <2>3, <3>1, <3>2, PlanKeeping DEF Planning, PlannedFiles
  <2>4. QED
    BY <1>7, <2>2, <2>3 DEF planRecipeFiles
<1>8. CASE CheckPlan(t) /\ ~Refuses(t)
  BY <1>3, <1>8 DEF CheckPlan, At, Planning
<1>9. QED
  BY <1>2, <1>4, <1>5, <1>6, <1>7, <1>8

LEMMA WriteKeeping ==
  ASSUME IInv, KInv, NEW t \in Terminals, writeInsideProject(t)
  PROVE  KInv'
<1> DEFINE c == proc[t]
<1>1. TypeOK /\ c \in Commands /\ disk \in Disk /\ Keeping(c, disk) /\ c.at = "write"
  BY DEF IInv, TypeOK, KInv, writeInsideProject, At
<1>2. CASE Refuses(t) \/ Fails(t)
  BY <1>2, RefusesKeeping
<1>3. ASSUME NEW f \in ToWrite(t),
             disk' = IF f = "files" THEN [disk EXCEPT !.files[Recipe(t)] = c.plan[f][1]]
                                    ELSE [disk EXCEPT ![f] = c.plan[f][1]],
             Writes(t, f, [c EXCEPT !.plan[f] = Nothing])
      PROVE  KInv'
  <2> DEFINE p == [c EXCEPT !.plan[f] = Nothing]
             q == [p EXCEPT !.wrote = @ \cup {f}]
  <2>1. f \in PlannedFiles /\ f \in Written
    BY DEF ToWrite, ToSet, Planned, PlannedFiles, Written, Linkable
  <2>2. Frame(disk, disk', f)
    BY <1>1, <1>3, <2>1 DEF Frame, Disk, PlannedFiles
  <2>3. /\ q.at = "write" /\ q.names = c.names /\ q.force = c.force /\ q.new = c.new
        /\ q.touched = c.touched /\ q.wrote = c.wrote \cup {f} /\ q.plan = [c.plan EXCEPT ![f] = Nothing]
    BY <1>1 DEF Commands
  <2> HIDE DEF p, q
  <2>4. q.plan[f] = Nothing /\ \A g \in PlannedFiles \ {f} : q.plan[g] = c.plan[g]
    BY <1>1, <2>1, <2>3 DEF Commands, Plans, PlannedFiles
  <2>5. /\ f = "compose" => q.plan.compose = Nothing
        /\ f = "config" => q.plan.config = Nothing
        /\ f = "env" => q.plan.env = Nothing
        /\ f = "files" => q.plan.files = Nothing
        /\ f # "compose" => q.plan.compose = c.plan.compose
        /\ f # "config" => q.plan.config = c.plan.config
        /\ f # "env" => q.plan.env = c.plan.env
        /\ f # "files" => q.plan.files = c.plan.files
    BY <2>4 DEF PlannedFiles
  <2>6. KeepsCompose(q, disk')
    BY <1>1, <2>2, <2>3, <2>5 DEF Keeping, KeepsCompose, Frame
  <2>7. KeepsConfig(q, disk')
    BY <1>1, <2>2, <2>3, <2>5 DEF Keeping, KeepsConfig, Frame
  <2>8. KeepsEnv(q, disk')
    BY <1>1, <2>2, <2>3, <2>5 DEF Keeping, KeepsEnv, Frame
  <2>9. KeepsFiles(q)
    BY <1>1, <2>3, <2>5 DEF Keeping, KeepsFiles
  <2>10. \A g \in PlannedFiles : q.plan[g] # Nothing => g \notin q.wrote
    BY <1>1, <2>3, <2>4 DEF Keeping
  <2>11. Keeping(q, disk')
    BY <2>3, <2>6, <2>7, <2>8, <2>9, <2>10 DEF Keeping, Planning
  <2>12. QED
    BY <1>1, <1>3, <2>1, <2>2, <2>11, WritesKeeping DEF p, q
<1>4. QED
  BY <1>2, <1>3 DEF writeInsideProject

(* The commands that write one file each.                                   *)
LEMMA DockerfileKeeping ==
  ASSUME IInv, KInv, NEW t \in Terminals, ExtendImage(t) \/ CheckIgnore(t) \/ WriteDockerfile(t)
  PROVE  KInv'
<1> DEFINE c == proc[t]
<1>1. TypeOK /\ c \in Commands /\ disk \in Disk /\ Keeping(c, disk) /\ Sound(c, disk)
  BY DEF IInv, TypeOK, KInv
<1>2. CASE Refuses(t) \/ Fails(t)
  BY <1>2, RefusesKeeping
<1>3. CASE (ExtendImage(t) \/ CheckIgnore(t)) /\ ~Refuses(t)
  <2> DEFINE p == To(t, "template")
  <2>1. Goes(t, p) /\ c.at \in {"dockerfile", "check ignore"}
    BY <1>3 DEF ExtendImage, CheckIgnore, At
  <2>2. p.at = "template" /\ p.config = c.config /\ p.touched = c.touched
    BY <1>1, ToContinues DEF Points, Continues
  <2> HIDE DEF p
  <2>3. Keeping(p, disk)
    BY <1>1, <2>1, <2>2 DEF Keeping, Planning
  <2>4. QED
    BY <1>1, <2>1, <2>3, GoesKeeping DEF p
<1>4. CASE WriteDockerfile(t) /\ ~Refuses(t) /\ ~Fails(t)
  <2> DEFINE register == configuredDockerfile(t) = "none"
             p == IF register THEN To(t, "register") ELSE Ends(t, "done")
  <2>1. c.at = "template" /\ c.wrote = {}
    BY <1>1, <1>4 DEF WriteDockerfile, At, Sound, Safe, Bare
  <2>2. /\ register => p.at = "register" /\ p.config = c.config /\ p.touched = c.touched /\ p.wrote = {}
        /\ ~register => p.at = "done"
    <3>1. "register" \in Points
      BY Zenon DEF Points
    <3>2. register => p.at = "register" /\ p.config = c.config /\ p.touched = c.touched /\ p.wrote = {}
      BY <1>1, <2>1, <3>1, ToFacts
    <3>3. ~register => p.at = "done"
      BY <1>1, EndsFacts
    <3>4. QED
      BY <3>2, <3>3
  <2>3. register => c.config[1].dockerfile = "none"
    BY DEF configuredDockerfile
  <2>4. "config" \notin c.touched => c.config = <<disk.config>>
    BY <1>1, <2>1 DEF Keeping
  <2>5. CASE Goes(t, p)
    <3> HIDE DEF p, register
    <3>1. Keeping(p, disk)
      BY <2>2, <2>3, <2>4 DEF Keeping, Planning
    <3>2. QED
      BY <1>1, <2>5, <3>1, GoesKeeping
  <2>6. CASE disk' = [disk EXCEPT !.dockerfile[Target(t)] = "template"] /\ Writes(t, "dockerfile", p)
    <3> DEFINE q == [p EXCEPT !.wrote = @ \cup {"dockerfile"}]
    <3>1. Frame(disk, disk', "dockerfile") /\ disk'.config = disk.config /\ "dockerfile" \in Written
      BY <1>1, <2>6 DEF Frame, Disk, Written
    <3>2. p \in Commands
      <4>1. "register" \in Points
        BY Zenon DEF Points
      <4>2. QED
        BY <1>1, <4>1, ToFacts, EndsFacts
    <3> HIDE DEF p, register
    <3>3. q.at = p.at /\ q.config = p.config /\ q.touched = p.touched /\ q.wrote = p.wrote \cup {"dockerfile"}
      BY <3>2 DEF Commands
    <3> HIDE DEF q
    <3>4. Keeping(q, disk')
      BY <2>2, <2>3, <2>4, <3>1, <3>3 DEF Keeping, Planning
    <3>5. QED
      BY <1>1, <2>6, <3>1, <3>4, WritesKeeping DEF q
  <2>7. QED
    BY <1>4, <2>5, <2>6 DEF WriteDockerfile
<1>5. QED
  BY <1>2, <1>3, <1>4

(* Steps after which a command says no more of the files.                   *)
LEMMA RestKeeping ==
  ASSUME IInv, KInv, NEW t \in Terminals, NEW p \in Commands,
         p.at \in {"open", "up", "ignore", "done", "refused", "failed"},
         \/ Goes(t, p)
         \/ \E f \in Written : Frame(disk, disk', f) /\ Writes(t, f, p)
  PROVE  KInv'
<1>1. CASE Goes(t, p)
  <2>1. Keeping(p, disk)
    BY Restful
  <2>2. QED
    BY <1>1, <2>1, GoesKeeping DEF IInv
<1>2. CASE \E f \in Written : Frame(disk, disk', f) /\ Writes(t, f, p)
  <2>1. PICK f \in Written : Frame(disk, disk', f) /\ Writes(t, f, p)
    BY <1>2
  <2> DEFINE q == [p EXCEPT !.wrote = @ \cup {f}]
  <2>2. q.at = p.at
    BY DEF Commands
  <2> HIDE DEF q
  <2>3. Keeping(q, disk')
    BY <2>2, Restful
  <2>4. QED
    BY <2>1, <2>3, WritesKeeping DEF IInv, q
<1>3. QED
  BY <1>1, <1>2

LEMMA OtherStepsKeeping ==
  ASSUME IInv, KInv, NEW t \in Terminals,
         \/ RegisterDockerfile(t) \/ writeTemplateOnce(t) \/ writeLocalOnce(t) \/ ignoreLocalOverride(t)
         \/ writeEnvFile(t)
  PROVE  KInv'
<1>1. TypeOK /\ disk \in Disk
  BY DEF IInv, TypeOK
<1>2. Ends(t, "done") \in Commands /\ Ends(t, "done").at = "done"
  BY <1>1, EndsFacts
<1>3. To(t, "ignore") \in Commands /\ To(t, "ignore").at = "ignore"
  BY <1>1, ToContinues DEF Points
<1>4. CASE Refuses(t) \/ Fails(t)
  BY <1>4, RefusesKeeping
<1>5. CASE RegisterDockerfile(t) /\ ~Refuses(t) /\ ~Fails(t)
  <2>1. Frame(disk, disk', "config") /\ Writes(t, "config", Ends(t, "done")) /\ "config" \in Written
    BY <1>1, <1>5 DEF RegisterDockerfile, Frame, Disk, Written, Linkable
  <2>2. QED
    BY <1>2, <2>1, RestKeeping
<1>6. CASE writeTemplateOnce(t) /\ ~Refuses(t) /\ ~Fails(t)
  <2>1. \/ Goes(t, Ends(t, "done"))
        \/ Frame(disk, disk', "compose") /\ Writes(t, "compose", Ends(t, "done"))
    BY <1>1, <1>6 DEF writeTemplateOnce, Frame, Disk
  <2>2. "compose" \in Written
    BY DEF Written, Linkable
  <2>3. QED
    BY <1>2, <2>1, <2>2, RestKeeping
<1>7. CASE writeLocalOnce(t) /\ ~Fails(t)
  <2>1. \/ Goes(t, To(t, "ignore"))
        \/ Frame(disk, disk', "local") /\ Writes(t, "local", To(t, "ignore"))
    BY <1>1, <1>7 DEF writeLocalOnce, Frame, Disk
  <2>2. "local" \in Written
    BY DEF Written, Linkable
  <2>3. QED
    BY <1>3, <2>1, <2>2, RestKeeping
<1>8. CASE ignoreLocalOverride(t) /\ ~Fails(t)
  <2>1. disk.gitignore \in {"none", "plain", "lists", "unreadable"}
    BY <1>1 DEF Disk
  <2>2. \/ Goes(t, Ends(t, "done"))
        \/ Frame(disk, disk', "gitignore") /\ Writes(t, "gitignore", Ends(t, "done"))
    BY <1>1, <1>8, <2>1 DEF ignoreLocalOverride, Frame, Disk
  <2>3. "gitignore" \in Written
    BY DEF Written, Linkable
  <2>4. QED
    BY <1>2, <2>2, <2>3, RestKeeping
<1>9. CASE writeEnvFile(t)
  BY <1>2, <1>9, RestKeeping DEF writeEnvFile
<1>10. QED
  BY <1>4, <1>5, <1>6, <1>7, <1>8, <1>9

LEMMA StartKeeping ==
  ASSUME IInv, KInv, NEW t \in Terminals, Start(t) \/ RecipeAdded(t)
  PROVE  KInv'
<1>1. TypeOK /\ proc[t] \in Commands
  BY DEF IInv, TypeOK
<1>2. ASSUME NEW p, Goes(t, p), p.at \in {"open", "up", "done", "refused"} PROVE KInv'
  BY <1>1, <1>2, Restful, GoesKeeping
<1>3. CASE Goes(t, [Idle EXCEPT !.at = "up", !.name = "up"])
  BY <1>2, <1>3 DEF Idle
<1>4. CASE \E name \in {"image", "compose", "local"} : Goes(t, [Idle EXCEPT !.at = "open", !.name = name])
  BY <1>2, <1>4 DEF Idle
<1>5. CASE \E a \in Arguments :
        Goes(t, [Idle EXCEPT !.name = "add", !.force = a.force, !.names = selectRecipes(a.names),
                             !.at = IF selectRecipes(a.names) = <<>> THEN "refused" ELSE "open"])
  <2>1. PICK a \in Arguments :
          Goes(t, [Idle EXCEPT !.name = "add", !.force = a.force, !.names = selectRecipes(a.names),
                               !.at = IF selectRecipes(a.names) = <<>> THEN "refused" ELSE "open"])
    BY <1>5
  <2> DEFINE p == [Idle EXCEPT !.name = "add", !.force = a.force, !.names = selectRecipes(a.names),
                               !.at = IF selectRecipes(a.names) = <<>> THEN "refused" ELSE "open"]
  <2>2. p.at \in {"refused", "open"}
    BY DEF Idle
  <2>3. QED
    BY <1>2, <2>1, <2>2
<1>6. CASE RecipeAdded(t)
  <2> DEFINE rest == Tail(proc[t].names)
             e == Ends(t, IF rest = <<>> THEN "done" ELSE "open")
             p == [e EXCEPT !.added = @ \cup {Recipe(t)}, !.names = rest]
  <2>1. e \in Commands /\ e.at \in {"done", "open"}
    BY <1>1, EndsFacts
  <2> HIDE DEF e
  <2>2. p.at = e.at
    BY <2>1 DEF Commands
  <2>3. Goes(t, p)
    BY <1>6 DEF RecipeAdded, e
  <2> HIDE DEF p
  <2>4. QED
    BY <1>2, <2>1, <2>2, <2>3
<1>7. QED
  BY <1>3, <1>4, <1>5, <1>6 DEF Start

LEMMA StepKeeping == IInv /\ KInv /\ [Next]_vars => KInv'
<1> SUFFICES ASSUME IInv, KInv, [Next]_vars PROVE KInv'
  OBVIOUS
<1>1. CASE Edit
  BY <1>1, EditKeeping DEF IInv
<1>2. CASE UNCHANGED vars
  BY <1>2 DEF vars, KInv
<1>3. ASSUME NEW t \in Terminals,
             \/ Start(t) \/ openProject(t)
             \/ planRecipeCompose(t) \/ planRecipeConfig(t) \/ planRecipeEnv(t) \/ planRecipeFiles(t)
             \/ CheckPlan(t) \/ writeInsideProject(t) \/ RecipeAdded(t)
      PROVE  KInv'
  BY <1>3, StartKeeping, OpenKeeping, PlanStepsKeeping, WriteKeeping
<1>4. ASSUME NEW t \in Terminals,
             \/ ExtendImage(t) \/ WriteDockerfile(t) \/ RegisterDockerfile(t)
             \/ CheckIgnore(t) \/ writeTemplateOnce(t) \/ writeLocalOnce(t) \/ ignoreLocalOverride(t)
             \/ writeEnvFile(t)
      PROVE  KInv'
  BY <1>4, DockerfileKeeping, OtherStepsKeeping
<1>5. QED
  BY <1>1, <1>2, <1>3, <1>4 DEF Next

-----------------------------------------------------------------------------
(* What a write takes away.                                                 *)

(* A line appended for another key leaves the last line of k where it is.   *)
LEMMA LastLineStays ==
  ASSUME NEW S, NEW lines \in Seq(S), NEW line \in S, NEW k \in KeysOf(lines), line.key \notin KeysOf(lines)
  PROVE  LastLine(Append(lines, line), k) = LastLine(lines, k) /\ k \in KeysOf(Append(lines, line))
<1> DEFINE n == Len(lines)
           after == Append(lines, line)
           IsLast(s, i) == s[i].key = k /\ \A j \in DOMAIN s : s[j].key = k => j <= i
           Rest == {n - i : i \in {i \in 1 .. n : lines[i].key = k}}
<1>1. n \in Nat /\ DOMAIN lines = 1 .. n /\ DOMAIN after = 1 .. n + 1 /\ after[n + 1] = line
      /\ \A i \in 1 .. n : after[i] = lines[i]
  OBVIOUS
<1>2. PICK x \in 1 .. n : lines[x].key = k
  BY <1>1 DEF KeysOf
<1>3. line.key # k
  OBVIOUS
<1>4. Rest \in SUBSET Nat /\ n - x \in Rest
  BY <1>1, <1>2
<1>5. PICK m \in Rest : \A y \in Rest : m <= y
  BY <1>4, LeastElement
<1>6. PICK i \in 1 .. n : m = n - i /\ lines[i].key = k
  OBVIOUS
<1>7. ASSUME NEW j \in 1 .. n, lines[j].key = k PROVE j <= i
  <2>1. n - j \in Rest
    BY <1>7
  <2>2. m <= n - j
    BY <1>5, <2>1
  <2>3. QED
    BY <1>1, <1>6, <2>2
<1> HIDE DEF n, after, Rest
<1>8. i \in DOMAIN lines /\ IsLast(lines, i)
  BY <1>1, <1>6, <1>7
<1>9. i \in DOMAIN after /\ IsLast(after, i)
  BY <1>1, <1>3, <1>6, <1>7
<1>10. \A j \in DOMAIN lines : IsLast(lines, j) => j = i
  BY <1>1, <1>8
<1>11. \A j \in DOMAIN after : IsLast(after, j) => j = i
  BY <1>1, <1>9
<1>12. LastLine(lines, k) = lines[i]
  BY <1>8, <1>10 DEF LastLine
<1>13. LastLine(after, k) = after[i]
  BY <1>9, <1>11 DEF LastLine
<1>14. k \in KeysOf(after)
  BY <1>9 DEF KeysOf
<1>15. QED
  BY <1>1, <1>6, <1>12, <1>13, <1>14 DEF after

(* An entry of the project's that a step takes away is in a file that the   *)
(* step changes.                                                            *)
LEMMA LostFacts ==
  ASSUME NEW d, NEW e, NEW lost \in Mine(d) \ Mine(e)
  PROVE  \/ \E r \in Recipes : /\ lost = <<"compose", r>> /\ d.compose.service[r] = "mine"
                               /\ e.compose.service[r] # d.compose.service[r]
         \/ /\ lost = <<"config", "extension">> /\ d.config.extension \in {"mine", "own"}
            /\ e.config.extension # d.config.extension
         \/ /\ lost = <<"config", "directive">> /\ d.config.directive \in {"mine", "own"}
            /\ e.config.directive # d.config.directive
         \/ /\ lost = <<"config", "dockerfile">> /\ d.config.dockerfile \in {"mine", "own"}
            /\ e.config.dockerfile # d.config.dockerfile
         \/ /\ lost[1] = "env"
            /\ \E k \in KeysOf(d.env.lines) :
                 ~(k \in KeysOf(e.env.lines) /\ LastLine(e.env.lines, k) = LastLine(d.env.lines, k))
         \/ \E r \in Recipes : d.files[r] = "mine" /\ e.files[r] # d.files[r]
         \/ \E path \in {"default", "own"} :
              d.dockerfile[path] \in {"layer", "other"} /\ e.dockerfile[path] # d.dockerfile[path]
<1> DEFINE Services(s) == {<<"compose", r>> : r \in {r \in Recipes : s.compose.service[r] = "mine"}}
           Sections(s) == {<<"config", x>> : x \in {x \in {"extension", "directive", "dockerfile"} :
                                                      s.config[x] \in {"mine", "own"}}}
           Keys(s) == {<<"env", k, LastLine(s.env.lines, k).value>> :
                         k \in {k \in KeysOf(s.env.lines) : LastLine(s.env.lines, k).by = "mine"}}
           Added(s) == {<<"files", r>> : r \in {r \in Recipes : s.files[r] = "mine"}}
           Layers(s) == {<<"dockerfile", path, s.dockerfile[path]>> :
                           path \in {path \in {"default", "own"} : s.dockerfile[path] \in {"layer", "other"}}}
<1>1. \A s : Mine(s) = Services(s) \cup Sections(s) \cup Keys(s) \cup Added(s) \cup Layers(s)
  BY Zenon DEF Mine
<1>2. CASE lost \in Services(d) \ Services(e)
  <2>1. PICK r \in Recipes : lost = <<"compose", r>> /\ d.compose.service[r] = "mine"
    BY <1>2
  <2>2. e.compose.service[r] # "mine"
    BY <1>2, <2>1
  <2>3. QED
    BY <2>1, <2>2
<1>3. CASE lost \in Sections(d) \ Sections(e)
  <2>1. PICK x \in {"extension", "directive", "dockerfile"} : lost = <<"config", x>> /\ d.config[x] \in {"mine", "own"}
    BY <1>3, Zenon
  <2>2. e.config[x] # d.config[x]
    BY <1>3, <2>1, Zenon
  <2>3. CASE x = "extension"
    BY <2>1, <2>2, <2>3
  <2>4. CASE x = "directive"
    BY <2>1, <2>2, <2>4
  <2>5. CASE x = "dockerfile"
    BY <2>1, <2>2, <2>5
  <2>6. QED
    BY <2>3, <2>4, <2>5
<1>4. CASE lost \in Keys(d) \ Keys(e)
  <2>1. PICK k \in KeysOf(d.env.lines) :
          lost = <<"env", k, LastLine(d.env.lines, k).value>> /\ LastLine(d.env.lines, k).by = "mine"
    BY <1>4
  <2>2. ~(k \in KeysOf(e.env.lines) /\ LastLine(e.env.lines, k) = LastLine(d.env.lines, k))
    BY <1>4, <2>1
  <2>3. lost[1] = "env"
    BY <2>1
  <2>4. QED
    BY <2>2, <2>3
<1>5. CASE lost \in Added(d) \ Added(e)
  BY <1>5
<1>6. CASE lost \in Layers(d) \ Layers(e)
  <2>1. PICK path \in {"default", "own"} :
          lost = <<"dockerfile", path, d.dockerfile[path]>> /\ d.dockerfile[path] \in {"layer", "other"}
    BY <1>6
  <2>2. e.dockerfile[path] # d.dockerfile[path]
    BY <1>6, <2>1
  <2>3. QED
    BY <2>1, <2>2
<1> HIDE DEF Services, Sections, Keys, Added, Layers
<1>7. QED
  BY <1>1, <1>2, <1>3, <1>4, <1>5, <1>6, Zenon

(* What t may take away with a step.                                        *)
MayLose(t, lost) ==
  /\ HasWritten(t)
  /\ \/ proc[t].force /\ lost = <<"compose", Recipe(t)>>
     \/ lost[1] \in proc[t].touched \ proc[t].new

LEMMA WrittenFacts ==
  ASSUME TypeOK, NEW t \in Terminals, NEW f \in Written, NEW p \in Commands, Writes(t, f, p),
         p.wrote = proc[t].wrote, f \notin proc[t].wrote
  PROVE  HasWritten(t)
<1>1. proc'[t] = [p EXCEPT !.wrote = @ \cup {f}]
  BY DEF Writes
<1>2. proc'[t].wrote = proc[t].wrote \cup {f}
  BY <1>1 DEF Commands
<1>3. QED
  BY <1>2 DEF HasWritten

LEMMA WriteLoses ==
  ASSUME IInv, KInv, NEW t \in Terminals, writeInsideProject(t), NEW lost \in Mine(disk) \ Mine(disk')
  PROVE  MayLose(t, lost)
<1> DEFINE c == proc[t]
           r == Recipe(t)
<1>1. TypeOK /\ c \in Commands /\ disk \in Disk /\ Keeping(c, disk) /\ Sound(c, disk) /\ c.at = "write"
  BY DEF IInv, TypeOK, KInv, writeInsideProject, At
<1>2. r = Head(c.names) /\ r \in Recipes
  BY <1>1 DEF Recipe, Sound, Safe, Routed, Commands
<1>3. disk' # disk
  OBVIOUS
<1>4. ~Refuses(t) /\ ~Fails(t)
  BY <1>3 DEF Refuses, Fails, Goes
<1>5. PICK f \in ToWrite(t) :
        /\ ~Blocked(t, f)
        /\ disk' = IF f = "files" THEN [disk EXCEPT !.files[r] = c.plan[f][1]]
                                  ELSE [disk EXCEPT ![f] = c.plan[f][1]]
        /\ Writes(t, f, [c EXCEPT !.plan[f] = Nothing])
  BY <1>4 DEF writeInsideProject
<1>6. f \in PlannedFiles /\ f \in Written /\ c.plan[f] # Nothing /\ f \notin c.wrote
  BY <1>1, <1>5 DEF ToWrite, ToSet, Planned, PlannedFiles, Written, Linkable, Keeping
<1>7. HasWritten(t)
  <2>1. [c.plan EXCEPT ![f] = Nothing] \in Plans
    BY <1>1, <1>6 DEF Commands, Plans, Maybe, PlannedFiles
  <2>2. [c EXCEPT !.plan[f] = Nothing] \in Commands /\ [c EXCEPT !.plan[f] = Nothing].wrote = c.wrote
    BY <1>1, <2>1 DEF Commands
  <2>3. QED
    BY <1>1, <1>5, <1>6, <2>2, WrittenFacts
<1>8. c.new \subseteq {"compose", "env", "files"}
  BY <1>1 DEF Commands
<1>9. CASE f = "compose"
  <2>1. /\ disk'.compose = c.plan.compose[1] /\ disk'.config = disk.config /\ disk'.env = disk.env
        /\ disk'.files = disk.files /\ disk'.dockerfile = disk.dockerfile
    BY <1>1, <1>5, <1>9 DEF Disk
  <2>2. PICK s \in Recipes : /\ lost = <<"compose", s>> /\ disk.compose.service[s] = "mine"
                             /\ disk'.compose.service[s] # disk.compose.service[s]
    BY <2>1, LostFacts
  <2>3. CASE "compose" \notin c.touched
    <3>1. s = r /\ c.force
      BY <1>1, <1>2, <1>6, <1>9, <2>1, <2>2, <2>3, Zenon DEF Keeping, KeepsCompose
    <3>2. QED
      BY <1>7, <2>2, <3>1, Zenon DEF MayLose
  <2>4. CASE "compose" \in c.touched /\ "compose" \notin c.new
    BY <1>7, <2>2, <2>4 DEF MayLose
  <2>5. CASE "compose" \in c.new
    <3>1. ~disk.compose.there
      BY <1>5, <1>9, <2>5 DEF Blocked, Exists
    <3>2. QED
      BY <1>1, <2>2, <3>1 DEF Disk, Compose
  <2>6. QED
    BY <2>3, <2>4, <2>5
<1>10. CASE f = "config"
  <2>1. /\ disk'.config = c.plan.config[1] /\ disk'.compose = disk.compose /\ disk'.env = disk.env
        /\ disk'.files = disk.files /\ disk'.dockerfile = disk.dockerfile
    BY <1>1, <1>5, <1>10 DEF Disk
  <2>2. \/ /\ lost = <<"config", "extension">> /\ disk.config.extension \in {"mine", "own"}
           /\ disk'.config.extension # disk.config.extension
        \/ /\ lost = <<"config", "directive">> /\ disk.config.directive \in {"mine", "own"}
           /\ disk'.config.directive # disk.config.directive
        \/ /\ lost = <<"config", "dockerfile">> /\ disk.config.dockerfile \in {"mine", "own"}
           /\ disk'.config.dockerfile # disk.config.dockerfile
    BY <2>1, LostFacts
  <2>3. "config" \in c.touched
    BY <1>1, <1>6, <1>10, <2>1, <2>2 DEF Keeping, KeepsConfig, Extends
  <2>4. lost[1] = "config"
    BY <2>2
  <2>5. QED
    BY <1>7, <1>8, <2>3, <2>4 DEF MayLose
<1>11. CASE f = "env"
  <2>1. /\ disk'.env = c.plan.env[1] /\ disk'.compose = disk.compose /\ disk'.config = disk.config
        /\ disk'.files = disk.files /\ disk'.dockerfile = disk.dockerfile
    BY <1>1, <1>5, <1>11 DEF Disk
  <2>2. /\ lost[1] = "env"
        /\ \E k \in KeysOf(disk.env.lines) :
             ~(k \in KeysOf(disk'.env.lines) /\ LastLine(disk'.env.lines, k) = LastLine(disk.env.lines, k))
    BY <2>1, LostFacts
  <2>3. CASE "env" \in c.touched /\ "env" \notin c.new
    BY <1>7, <2>2, <2>3 DEF MayLose
  <2>4. CASE "env" \notin c.touched
    <3>1. c.plan.env[1].lines = Append(disk.env.lines, RecipeLine) /\ RecipeKey \notin KeysOf(disk.env.lines)
      BY <1>1, <1>6, <1>11, <2>4 DEF Keeping, KeepsEnv
    <3> DEFINE S == [key : EnvKeys, value : Seq(STRING), by : Whose]
    <3>2. disk.env.lines \in Seq(S)
      BY <1>1 DEF Disk, Env
    <3>3. <<>> \in Seq(STRING)
      OBVIOUS
    <3>4. RecipeLine \in S /\ RecipeLine.key = RecipeKey
      BY <3>3, RecipesAssumption DEF RecipesAssumption, RecipeLine, Whose
    <3> HIDE DEF S
    <3>5. QED
      BY <2>1, <2>2, <3>1, <3>2, <3>4, LastLineStays
  <2>5. CASE "env" \in c.new
    <3>1. ~disk.env.there
      BY <1>5, <1>11, <2>5 DEF Blocked, Exists
    <3>2. disk.env.lines = <<>>
      BY <1>1, <3>1 DEF Disk, Env
    <3>3. QED
      BY <2>2, <3>2 DEF KeysOf
  <2>6. QED
    BY <2>3, <2>4, <2>5
<1>12. CASE f = "files"
  <2>1. /\ disk'.compose = disk.compose /\ disk'.config = disk.config /\ disk'.env = disk.env
        /\ disk'.dockerfile = disk.dockerfile /\ \A s \in Recipes : s # r => disk'.files[s] = disk.files[s]
    BY <1>1, <1>2, <1>5, <1>12 DEF Disk
  <2>2. "files" \in c.new
    BY <1>1, <1>6, <1>12 DEF Keeping, KeepsFiles
  <2>3. disk.files[r] = "none"
    BY <1>5, <1>12, <2>2 DEF Blocked, Exists
  <2>4. QED
    BY <2>1, <2>3, LostFacts
<1>13. QED
  BY <1>6, <1>9, <1>10, <1>11, <1>12 DEF PlannedFiles

LEMMA RegisterLoses ==
  ASSUME IInv, KInv, NEW t \in Terminals, RegisterDockerfile(t), NEW lost \in Mine(disk) \ Mine(disk')
  PROVE  MayLose(t, lost)
<1> DEFINE c == proc[t]
           g == c.config[1]
<1>1. TypeOK /\ c \in Commands /\ disk \in Disk /\ Keeping(c, disk) /\ Sound(c, disk) /\ c.at = "register"
  BY DEF IInv, TypeOK, KInv, RegisterDockerfile, At
<1>2. g \in Config /\ g.dockerfile = "none" /\ "config" \notin c.wrote /\ "config" \notin c.new
  BY <1>1 DEF Sound, Safe, Routed, Commands, Maybe, Keeping
<1>3. disk' = [disk EXCEPT !.config = SetScalar(g)] /\ Writes(t, "config", Ends(t, "done"))
  <2>1. disk' # disk
    OBVIOUS
  <2>2. QED
    BY <2>1 DEF RegisterDockerfile, Refuses, Fails, Goes
<1>4. HasWritten(t)
  <2>1. Ends(t, "done") \in Commands /\ Ends(t, "done").wrote = c.wrote
    BY <1>1, EndsFacts
  <2>2. "config" \in Written
    BY DEF Written, Linkable
  <2>3. QED
    BY <1>1, <1>2, <1>3, <2>1, <2>2, WrittenFacts
<1>5. /\ disk'.compose = disk.compose /\ disk'.env = disk.env /\ disk'.files = disk.files
      /\ disk'.dockerfile = disk.dockerfile
      /\ disk'.config.extension = g.extension /\ disk'.config.directive = g.directive
  BY <1>1, <1>2, <1>3 DEF Disk, SetScalar, Config
<1>6. \/ /\ lost = <<"config", "extension">> /\ disk'.config.extension # disk.config.extension
      \/ /\ lost = <<"config", "directive">> /\ disk'.config.directive # disk.config.directive
      \/ /\ lost = <<"config", "dockerfile">> /\ disk.config.dockerfile \in {"mine", "own"}
  BY <1>5, LostFacts
<1>7. "config" \notin c.touched => g = disk.config
  BY <1>1 DEF Keeping
<1>8. "config" \in c.touched /\ lost[1] = "config"
  BY <1>2, <1>5, <1>6, <1>7
<1>9. QED
  BY <1>2, <1>4, <1>8 DEF MayLose

(* The files the other commands write were not there, or hold no entry.     *)
LEMMA OthersLose ==
  ASSUME IInv, NEW t \in Terminals,
         \/ WriteDockerfile(t) \/ writeTemplateOnce(t) \/ writeLocalOnce(t) \/ ignoreLocalOverride(t)
  PROVE  Mine(disk) \subseteq Mine(disk')
<1> SUFFICES ASSUME NEW lost \in Mine(disk) \ Mine(disk') PROVE FALSE
  OBVIOUS
<1>1. disk \in Disk /\ TypeOK /\ disk' # disk
  BY DEF IInv, TypeOK
<1>2. ~Refuses(t) /\ ~Fails(t) /\ \A p : ~Goes(t, p)
  BY <1>1 DEF Refuses, Fails, Goes
<1>3. CASE WriteDockerfile(t)
  <2>1. disk.dockerfile[Target(t)] = "none" /\ disk' = [disk EXCEPT !.dockerfile[Target(t)] = "template"]
    BY <1>2, <1>3 DEF WriteDockerfile
  <2>2. /\ disk'.compose = disk.compose /\ disk'.config = disk.config /\ disk'.env = disk.env
        /\ disk'.files = disk.files
        /\ \A path \in {"default", "own"} : disk.dockerfile[path] # "none" => disk'.dockerfile[path] = disk.dockerfile[path]
    BY <1>1, <2>1 DEF Disk, Dockerfiles
  <2>3. QED
    BY <2>2, LostFacts
<1>4. CASE writeTemplateOnce(t)
  <2>1. disk' = [disk EXCEPT !.compose.there = TRUE, !.compose.services = "map"]
    BY <1>2, <1>4 DEF writeTemplateOnce
  <2>2. /\ disk'.compose.service = disk.compose.service /\ disk'.config = disk.config /\ disk'.env = disk.env
        /\ disk'.files = disk.files /\ disk'.dockerfile = disk.dockerfile
    BY <1>1, <2>1 DEF Disk, Compose
  <2>3. QED
    BY <2>2, LostFacts
<1>5. CASE writeLocalOnce(t) \/ ignoreLocalOverride(t)
  <2>1. disk.gitignore \in {"none", "plain", "lists", "unreadable"}
    BY <1>1 DEF Disk
  <2>2. disk' = [disk EXCEPT !.local = "recipe"] \/ disk' = [disk EXCEPT !.gitignore = "lists"]
    BY <1>2, <1>5, <2>1 DEF writeLocalOnce, ignoreLocalOverride
  <2>3. /\ disk'.compose = disk.compose /\ disk'.config = disk.config /\ disk'.env = disk.env
        /\ disk'.files = disk.files /\ disk'.dockerfile = disk.dockerfile
    BY <1>1, <2>2 DEF Disk
  <2>4. QED
    BY <2>3, LostFacts
<1>6. QED
  BY <1>3, <1>4, <1>5

LEMMA EditsCounted == edits \in Nat /\ [Next]_vars => edits' \in Nat
<1> SUFFICES ASSUME edits \in Nat, [Next]_vars PROVE edits' \in Nat
  OBVIOUS
<1>1. CASE Edit
  BY <1>1 DEF Edit
<1>2. CASE UNCHANGED vars
  BY <1>2 DEF vars
<1>3. ASSUME NEW t \in Terminals,
             \/ Start(t) \/ openProject(t)
             \/ planRecipeCompose(t) \/ planRecipeConfig(t) \/ planRecipeEnv(t) \/ planRecipeFiles(t)
             \/ CheckPlan(t) \/ writeInsideProject(t) \/ RecipeAdded(t)
      PROVE  edits' = edits
  BY <1>3 DEF Start, openProject, planRecipeCompose, planRecipeConfig, planRecipeEnv, planRecipeFiles,
              CheckPlan, writeInsideProject, RecipeAdded
<1>4. ASSUME NEW t \in Terminals,
             \/ ExtendImage(t) \/ WriteDockerfile(t) \/ RegisterDockerfile(t)
             \/ CheckIgnore(t) \/ writeTemplateOnce(t) \/ writeLocalOnce(t) \/ ignoreLocalOverride(t)
             \/ writeEnvFile(t)
      PROVE  edits' = edits
  BY <1>4 DEF ExtendImage, WriteDockerfile, RegisterDockerfile, CheckIgnore, writeTemplateOnce,
              writeLocalOnce, ignoreLocalOverride, writeEnvFile
<1>5. QED
  BY <1>1, <1>2, <1>3, <1>4 DEF Next

LEMMA StepLoses ==
  ASSUME IInv, KInv, edits \in Nat, Next, edits' = edits, NEW lost \in Mine(disk) \ Mine(disk')
  PROVE  \E t \in Terminals : MayLose(t, lost)
<1>1. disk' # disk
  OBVIOUS
<1>2. ASSUME NEW t \in Terminals PROVE ~Refuses(t) /\ ~Fails(t) /\ \A p : ~Goes(t, p)
  BY <1>1 DEF Refuses, Fails, Goes
<1>3. ~Edit
  BY DEF Edit
<1>4. ASSUME NEW t \in Terminals PROVE ~(Start(t) \/ openProject(t) \/ planRecipeCompose(t) \/ planRecipeConfig(t))
  BY <1>2 DEF Start, openProject, planRecipeCompose, planRecipeConfig
<1>5. ASSUME NEW t \in Terminals PROVE ~(planRecipeEnv(t) \/ planRecipeFiles(t) \/ CheckPlan(t) \/ RecipeAdded(t))
  BY <1>2 DEF planRecipeEnv, planRecipeFiles, CheckPlan, RecipeAdded
<1>6. ASSUME NEW t \in Terminals PROVE ~(ExtendImage(t) \/ CheckIgnore(t) \/ writeEnvFile(t))
  BY <1>2 DEF ExtendImage, CheckIgnore, writeEnvFile
<1>7. ASSUME NEW t \in Terminals
      PROVE  ~(WriteDockerfile(t) \/ writeTemplateOnce(t) \/ writeLocalOnce(t) \/ ignoreLocalOverride(t))
  BY OthersLose
<1>8. PICK t \in Terminals : writeInsideProject(t) \/ RegisterDockerfile(t)
  BY <1>3, <1>4, <1>5, <1>6, <1>7 DEF Next
<1>9. MayLose(t, lost)
  BY <1>8, WriteLoses, RegisterLoses
<1>10. QED
  BY <1>9

(* No command takes an entry of the project away, but for what --force      *)
(* replaces and for what somebody else wrote since the command started into *)
(* a file that was there.                                                   *)
THEOREM ProjectWins == Spec => ProjectKeepsItsOwn
<1>1. Init => IInv /\ KInv /\ edits \in Nat
  <2>1. Init => KInv
    BY Restful DEF Init, KInv, Idle
  <2>2. QED
    BY <2>1, InitEstablishes DEF Init
<1>2. IInv /\ KInv /\ edits \in Nat /\ [Next]_vars => (IInv /\ KInv /\ edits \in Nat)'
  BY StepKeeps, StepKeeping, EditsCounted
<1>3. ASSUME IInv, KInv, edits \in Nat, [Next]_vars
      PROVE  [edits' = edits => \A lost \in Mine(disk) \ Mine(disk') : \E t \in Terminals :
                /\ HasWritten(t)
                /\ \/ proc[t].force /\ lost = <<"compose", Recipe(t)>>
                   \/ lost[1] \in proc[t].touched \ proc[t].new]_vars
  BY <1>3, StepLoses, Zenon DEF MayLose
<1>4. QED
  BY <1>1, <1>2, <1>3, PTL DEF Spec, ProjectKeepsItsOwn
=============================================================================
