---------------------------- MODULE ComposeStack ----------------------------
(* The compose project of one checkout: the files orobox generates from     *)
(* .orobox.yaml, the resolved copy of the user's compose override, and the  *)
(* containers that run from them, under the commands of several terminals.  *)
(* Every command first regenerates the files (EnsureDockerCompose) and then *)
(* calls compose; only `up` asks nginx to read a regenerated configuration. *)
EXTENDS Naturals, Sequences

CONSTANTS
  Terminals,   \* shells in which orobox commands run
  Domains,     \* values of the domains: key, rendered into nginx.conf
  Inis,        \* contents of a php ini, of the map form or of the project's file
  Overrides,   \* contents of a valid compose override
  MaxEdits,    \* bound: edits of the project by the developer
  MaxCommands  \* bound: commands started

Absent == "absent"
Broken == "broken"
Empty == "empty"
None == "none"

ASSUME ConstantsAssumption ==
  /\ MaxEdits \in Nat /\ MaxCommands \in Nat
  /\ {Absent, Broken, Empty, None} \cap (Domains \cup Inis \cup Overrides) = {}

(* php_ini: unset, the map form (orobox generates the file), or the path of *)
(* a file of the project.                                                   *)
NoIni == [form |-> "none", value |-> None]
IniFileForm == [form |-> "file", value |-> None]
IniSettings == {NoIni, IniFileForm} \cup [form : {"map"}, value : Inis]

Commands == {"up", "down", "service"}
Points == {"idle", "ini", "nginx", "compose", "overrides", "clean", "run", "reload", "done"}

VARIABLES
  conf,        \* .orobox.yaml: domains and php_ini
  project,     \* the project's ini file and its override source
  disk,        \* the internal directory: generated ini, nginx.conf, compose file, resolved copy
  web, php,    \* the containers: the configuration they were made with, what they have read
  proc,        \* per terminal the command it runs
  count,       \* edits and commands so far
  unseen       \* history: a command changed nginx.conf under the running web server and is gone

vars == <<conf, project, disk, web, php, proc, count, unseen>>

(* A command: the domains it loaded, what it mounts, whether its            *)
(* regeneration changed anything, and its verdict on the override.          *)
Loaded(point, c, domains) ==
  [at |-> point, cmd |-> c, domains |-> domains, mount |-> None, hash |-> None, changed |-> FALSE,
   broken |-> FALSE, alone |-> TRUE]
Idle == Loaded("idle", "service", None)

NoFile == [domains |-> None, mount |-> None, hash |-> None]
NotMade == [domains |-> None, mount |-> None, hash |-> None, copy |-> Absent]
Gone == [up |-> FALSE, made |-> NotMade, reads |-> Absent, again |-> FALSE]

-----------------------------------------------------------------------------
(* What the ini setting mounts, and the content behind a mount now.         *)

IniReady(ini) == ini.form # "file" \/ project.ini # Absent

phpIniMountSource(ini) ==
  CASE ini.form = "map" -> "generated"
    [] ini.form = "file" /\ project.ini # Absent -> "project"
    [] OTHER -> None

IniContent(ini) ==
  CASE phpIniMountSource(ini) = "generated" -> ini.value
    [] phpIniMountSource(ini) = "project" -> project.ini
    [] OTHER -> None

Behind(mount) ==
  CASE mount = "generated" -> disk.ini
    [] mount = "project" -> project.ini
    [] OTHER -> None

Init ==
  /\ conf \in [domains : Domains, ini : IniSettings]
  /\ project \in [ini : Inis, override : Overrides \cup {Absent}]
  /\ disk = [ini |-> Absent, nginx |-> Absent, compose |-> NoFile, copy |-> Absent]
  /\ web = Gone /\ php = Gone
  /\ proc = [t \in Terminals |-> Idle]
  /\ count = [made |-> 0, commands |-> 0] /\ unseen = FALSE

-----------------------------------------------------------------------------
(* Terminals. `alone` is TRUE while nothing but t's own command has touched *)
(* the project, the files or the containers since t started.                *)

At(t, point) == proc[t].at = point

Disturb(procs, t) ==
  [u \in Terminals |-> IF u = t THEN procs[u] ELSE [procs[u] EXCEPT !.alone = FALSE]]

Goes(t, p) == proc' = Disturb([proc EXCEPT ![t] = p], t)

(* configGate: a missing ini file stops every command but the teardown.     *)
Start(t) ==
  /\ proc[t].at \in {"idle", "done"}
  /\ count.commands < MaxCommands /\ count' = [count EXCEPT !.commands = @ + 1]
  /\ \E c \in Commands :
       /\ IniReady(conf.ini) \/ c = "down"
       /\ proc' = [proc EXCEPT ![t] = Loaded("ini", c, conf.domains)]
  /\ UNCHANGED <<conf, project, disk, web, php, unseen>>

(* syncPhpIni: the generated file is written for the map form and emptied,  *)
(* never removed, otherwise; the hash of what is mounted becomes a label.   *)
(* GetPhpIni parses .orobox.yaml again here: viper would split the keys.    *)
EmptiedM(content) == Absent   \* mutant: the file is removed
Emptied(content) == IF content = Absent THEN Absent ELSE Empty

syncPhpIni(t) ==
  LET ini == conf.ini
      new == IF ini.form = "map" THEN ini.value ELSE Emptied(disk.ini)
  IN /\ At(t, "ini")
     /\ disk' = [disk EXCEPT !.ini = new]
     /\ Goes(t, [proc[t] EXCEPT !.at = "nginx", !.mount = phpIniMountSource(ini),
                                !.hash = IniContent(ini), !.changed = new # disk.ini])
     /\ UNCHANGED <<conf, project, web, php, count, unseen>>

(* The other files are written when their rendering differs. A command that *)
(* is not `up` never reloads what it changed here.                          *)
IsUp(t) == proc[t].cmd = "up"

writeNginxConf(t) ==
  LET new == proc[t].domains
      differs == new # disk.nginx
  IN /\ At(t, "nginx")
     /\ disk' = [disk EXCEPT !.nginx = new]
     /\ Goes(t, [proc[t] EXCEPT !.at = "compose", !.changed = @ \/ differs])
     /\ unseen' = (unseen \/ (differs /\ web.up /\ ~IsUp(t)))
     /\ UNCHANGED <<conf, project, web, php, count>>

ComposeFileM(t) == [domains |-> proc[t].domains, mount |-> proc[t].mount, hash |-> None]   \* mutant: no label
ComposeFile(t) == [domains |-> proc[t].domains, mount |-> proc[t].mount, hash |-> proc[t].hash]

writeComposeFile(t) ==
  /\ At(t, "compose")
  /\ disk' = [disk EXCEPT !.compose = ComposeFile(t)]
  /\ Goes(t, [proc[t] EXCEPT !.at = "overrides", !.changed = @ \/ ComposeFile(t) # disk.compose])
  /\ UNCHANGED <<conf, project, web, php, count, unseen>>

(* A missing source leaves no copy, and neither does one that cannot be     *)
(* used; the error of the latter is held for the compose runners. From here *)
(* on only `up` looks at what the regeneration changed.                     *)
ResolvedCopyM == IF project.override \in {Broken, Absent} THEN disk.copy ELSE project.override   \* mutant: kept
ResolvedCopy == IF project.override = Broken THEN Absent ELSE project.override

writeComposeOverrides(t) ==
  /\ At(t, "overrides")
  /\ disk' = [disk EXCEPT !.copy = ResolvedCopy]
  /\ \E next \in {"run"} \cup (IF IsUp(t) THEN {"clean"} ELSE {}) :
       Goes(t, [Loaded(next, proc[t].cmd, None) EXCEPT
                 !.broken = project.override = Broken, !.alone = proc[t].alone,
                 !.changed = IsUp(t) /\ (proc[t].changed \/ ResolvedCopy # disk.copy)])
  /\ UNCHANGED <<conf, project, web, php, count, unseen>>

-----------------------------------------------------------------------------
(* Compose. A container is recreated when the configuration compose reads   *)
(* differs from the one it was made with. The web server's has neither the  *)
(* domains nor the content of nginx.conf in it; both services carry the     *)
(* label with the hash of the ini.                                          *)

MadeOf(service) ==
  [domains |-> IF service = "web" THEN None ELSE disk.compose.domains,
   mount   |-> IF service = "web" THEN None ELSE disk.compose.mount,
   hash    |-> disk.compose.hash, copy |-> disk.copy]


(* Docker puts an empty directory where a bind source is missing.           *)
PhpReads(mount) == IF Behind(mount) = Absent THEN None ELSE Behind(mount)

Upped(t, service, c) ==
  IF c.up /\ c.made = MadeOf(service) THEN c
  ELSE [up |-> TRUE, made |-> MadeOf(service), again |-> ~proc[t].alone,
        reads |-> IF service = "web" THEN disk.nginx ELSE PhpReads(disk.compose.mount)]

(* The reload a command still owes to the web server.                       *)
Owed(t) == IsUp(t) /\ proc[t].changed /\ web.up

Finished(t) == [proc[t] EXCEPT !.at = "done"]

(* Every runner refuses first when the override could not be used.          *)
RunComposeRefused(t) ==
  /\ proc[t].at = "run" /\ proc[t].broken
  /\ Goes(t, Idle)
  /\ unseen' = (unseen \/ Owed(t))
  /\ UNCHANGED <<conf, project, disk, web, php, count>>

(* up --clean: the teardown's failure is a warning.                         *)
CleanFirst(t) ==
  /\ At(t, "clean")
  /\ Goes(t, [proc[t] EXCEPT !.at = "run"])
  /\ \/ ~proc[t].broken /\ web' = Gone /\ php' = Gone /\ unseen' = FALSE
     \/ UNCHANGED <<web, php, unseen>>
  /\ UNCHANGED <<conf, project, disk, count>>

Up(t) ==
  /\ At(t, "run") /\ ~proc[t].broken /\ IsUp(t)
  /\ web' = Upped(t, "web", web) /\ php' = Upped(t, "php", php)
  /\ unseen' = (unseen /\ web' = web)
  /\ Goes(t, [Finished(t) EXCEPT !.at = IF proc[t].changed THEN "reload" ELSE "done"])
  /\ UNCHANGED <<conf, project, disk, count>>

(* A failing `up -d` may have recreated any of the containers.              *)
UpFails(t) ==
  /\ At(t, "run") /\ ~proc[t].broken /\ IsUp(t)
  /\ web' \in {web, Upped(t, "web", web)} /\ php' \in {php, Upped(t, "php", php)}
  /\ unseen' = (web' = web /\ (unseen \/ Owed(t)))
  /\ Goes(t, Idle)
  /\ UNCHANGED <<conf, project, disk, count>>

ReloadWebServer(t) ==
  /\ At(t, "reload")
  /\ Goes(t, [proc[t] EXCEPT !.at = "done"])
  /\ \/ /\ web' = IF web.up THEN [web EXCEPT !.reads = disk.nginx] ELSE web
        /\ unseen' = FALSE
     \/ unseen' = (unseen \/ web.up) /\ UNCHANGED web     \* a failed reload is a warning
  /\ UNCHANGED <<conf, project, disk, php, count>>

Down(t) ==
  /\ At(t, "run") /\ ~proc[t].broken /\ proc[t].cmd = "down"
  /\ web' \in {web, Gone} /\ php' \in {php, Gone}
  /\ Goes(t, IF web' = Gone /\ php' = Gone THEN Finished(t) ELSE Idle)
  /\ unseen' = (unseen /\ web'.up)
  /\ UNCHANGED <<conf, project, disk, count>>

(* A command that works in the services: EnsureServicesRunning brings up    *)
(* what is not running, with what it depends on, and does not reload.       *)
EnsureServicesRunning(t) ==
  /\ At(t, "run") /\ ~proc[t].broken /\ proc[t].cmd = "service" /\ ~php.up
  /\ web' = Upped(t, "web", web) /\ php' = Upped(t, "php", php)
  /\ unseen' = (unseen /\ web' = web)
  /\ Goes(t, Idle)
  /\ UNCHANGED <<conf, project, disk, count>>

(* exec, ps, logs: in the containers there are.                             *)
Exec(t) ==
  /\ At(t, "run") /\ ~proc[t].broken /\ proc[t].cmd = "service"
  /\ proc' = [proc EXCEPT ![t] = Idle]
  /\ UNCHANGED <<conf, project, disk, web, php, count, unseen>>

Kill(t) ==
  /\ proc[t].at \notin {"idle", "done"}
  /\ proc' = [proc EXCEPT ![t] = Idle]
  /\ unseen' = (unseen \/ Owed(t))
  /\ UNCHANGED <<conf, project, disk, web, php, count>>

-----------------------------------------------------------------------------
(* The environment: Docker restarts a container in place, which reads its   *)
(* mounts again; the developer edits the project.                           *)

RestartWeb ==
  /\ web.up
  /\ web' = [web EXCEPT !.reads = disk.nginx] /\ unseen' = FALSE
  /\ proc' = [t \in Terminals |-> [proc[t] EXCEPT !.alone = FALSE]]
  /\ UNCHANGED <<conf, project, disk, php, count>>

RestartPhp ==
  /\ php.up
  /\ php' = IF Behind(php.made.mount) = Absent THEN Gone
            ELSE [php EXCEPT !.reads = Behind(php.made.mount), !.again = TRUE]
  /\ proc' = [t \in Terminals |-> [proc[t] EXCEPT !.alone = FALSE]]
  /\ UNCHANGED <<conf, project, disk, web, count, unseen>>

Edit ==
  /\ count.made < MaxEdits /\ count' = [count EXCEPT !.made = @ + 1]
  /\ \/ \E d \in Domains \ {conf.domains} : conf' = [conf EXCEPT !.domains = d] /\ UNCHANGED project
     \/ \E i \in IniSettings \ {conf.ini} : conf' = [conf EXCEPT !.ini = i] /\ UNCHANGED project
     \/ \E i \in (Inis \cup {Absent}) \ {project.ini} :
          project' = [project EXCEPT !.ini = i] /\ UNCHANGED conf
     \/ \E o \in (Overrides \cup {Absent, Broken}) \ {project.override} :
          project' = [project EXCEPT !.override = o] /\ UNCHANGED conf
  /\ proc' = [t \in Terminals |-> [proc[t] EXCEPT !.alone = FALSE]]
  /\ UNCHANGED <<disk, web, php, unseen>>

Next ==
  \/ \E t \in Terminals :
       \/ Start(t) \/ syncPhpIni(t) \/ writeNginxConf(t) \/ writeComposeFile(t)
       \/ writeComposeOverrides(t) \/ RunComposeRefused(t) \/ CleanFirst(t)
       \/ Up(t) \/ UpFails(t) \/ ReloadWebServer(t) \/ Down(t)
       \/ EnsureServicesRunning(t) \/ Exec(t) \/ Kill(t)
  \/ RestartWeb \/ RestartPhp \/ Edit

Spec == Init /\ [][Next]_vars

-----------------------------------------------------------------------------
(* Every variable has its type.                                             *)
Conf == [domains : Domains, ini : IniSettings]
Made == [domains : Domains \cup {None}, mount : {None, "generated", "project"},
         hash : Inis \cup {None}, copy : Overrides \cup {Absent}]
Container == {Gone} \cup [up : {TRUE}, made : Made, reads : Domains \cup Inis \cup {None, Empty},
                         again : BOOLEAN]
Processes == [at : Points, cmd : Commands, domains : Domains \cup {None},
              mount : {None, "generated", "project"}, hash : Inis \cup {None},
              changed : BOOLEAN, broken : BOOLEAN, alone : BOOLEAN]
TypeOK ==
  /\ conf \in Conf
  /\ project \in [ini : Inis \cup {Absent}, override : Overrides \cup {Absent, Broken}]
  /\ disk \in [ini : Inis \cup {Absent, Empty}, nginx : Domains \cup {Absent},
              compose : [domains : Domains, mount : {None, "generated", "project"},
                         hash : Inis \cup {None}] \cup {NoFile},
              copy : Overrides \cup {Absent}]
  /\ web \in Container /\ php \in Container
  /\ proc \in [Terminals -> Processes]
  /\ count \in [made : 0..MaxEdits, commands : 0..MaxCommands] /\ unseen \in BOOLEAN

(* An `up` that succeeded undisturbed has brought the containers to what    *)
(* the project says: PHP reads the ini of the configuration and both run    *)
(* with the resolved override. The ini is read through a mount whose path   *)
(* does not change, so this rests on the hash label; a container made while *)
(* the file was edited, or restarted in place since, may have read another  *)
(* content under its label (again). The web server, never recreated for its *)
(* domains, serves them unless another command regenerated nginx.conf and   *)
(* has not reloaded yet or is gone (unseen).                                *)
UpBringsTheProject == \A t \in Terminals :
  At(t, "done") /\ IsUp(t) /\ proc[t].alone =>
    /\ web.up /\ php.up
    /\ {web.made.copy, php.made.copy} = {ResolvedCopy}
    /\ php.again \/ php.reads = IniContent(conf.ini)
    /\ unseen \/ web.reads = conf.domains \/ \E u \in Terminals : Owed(u) /\ ~At(u, "done")

(* Compose never runs on an override that cannot be used or that the user   *)
(* has deleted or changed since: what an undisturbed command gives to       *)
(* compose is what its source says.                                         *)
NoStaleOverride == \A t \in Terminals :
  proc[t].at \in {"reload", "done"} /\ proc[t].alone =>
    project.override # Broken /\ disk.copy = project.override

(* A container keeps the bind source it was made with: whatever the         *)
(* configuration has become since, Docker can restart it in place. Only the *)
(* developer can take the project's own file away.                          *)
RestartsInPlace ==
  php.up => Behind(php.made.mount) # Absent \/ php.made.mount = "project"

=============================================================================
