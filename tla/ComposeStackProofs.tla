------------------------- MODULE ComposeStackProofs -------------------------
(***************************************************************************)
(* Proofs about ComposeStack: type correctness, what an undisturbed        *)
(* command hands to compose, containers that can be restarted in place,    *)
(* and what a successful `up` brings, for any number of terminals.         *)
(***************************************************************************)
EXTENDS ComposeStack, TLAPS

-----------------------------------------------------------------------------
(* What a step does to the commands.                                        *)

\* t goes on as p; the others only learn that they are no longer alone.
LEMMA GoesFacts ==
  ASSUME proc \in [Terminals -> Processes], NEW t \in Terminals, NEW p \in Processes, Goes(t, p)
  PROVE  /\ proc' \in [Terminals -> Processes]
         /\ proc'[t] = p
         /\ \A u \in Terminals \ {t} :
              /\ proc'[u].at = proc[u].at /\ proc'[u].cmd = proc[u].cmd
              /\ proc'[u].domains = proc[u].domains /\ proc'[u].mount = proc[u].mount
              /\ proc'[u].hash = proc[u].hash /\ proc'[u].changed = proc[u].changed
              /\ proc'[u].broken = proc[u].broken /\ proc'[u].alone = FALSE
BY DEF Goes, Disturb, Processes

\* A command that starts, or ends without a verdict.
LEMMA LoadedType ==
  ASSUME NEW at \in Points, NEW c \in Commands, NEW d \in Domains \cup {None}
  PROVE  Loaded(at, c, d) \in Processes /\ Idle \in Processes
BY DEF Loaded, Idle, Processes, Commands, Points

\* Everybody learns that somebody else changed something.
LEMMA NobodyAlone ==
  ASSUME proc \in [Terminals -> Processes],
         proc' = [t \in Terminals |-> [proc[t] EXCEPT !.alone = FALSE]]
  PROVE  /\ proc' \in [Terminals -> Processes]
         /\ \A u \in Terminals :
              /\ proc'[u].at = proc[u].at /\ proc'[u].cmd = proc[u].cmd
              /\ proc'[u].domains = proc[u].domains /\ proc'[u].mount = proc[u].mount
              /\ proc'[u].hash = proc[u].hash /\ proc'[u].changed = proc[u].changed
              /\ proc'[u].broken = proc[u].broken /\ proc'[u].alone = FALSE
BY DEF Processes

-----------------------------------------------------------------------------
(* Types. A command holds its domains until it has rendered them, and from  *)
(* then on, or once a web server runs, there is an nginx.conf.              *)

Loading == {"ini", "nginx", "compose"}
Rendering == {"compose", "overrides", "clean", "run", "reload"}
Composing == {"overrides", "clean", "run", "reload"}

HoldsDomains == \A t \in Terminals : proc[t].at \in Loading => proc[t].domains \in Domains
IsRendered ==
  /\ web.up \/ (\E t \in Terminals : proc[t].at \in Rendering) => disk.nginx \in Domains
  /\ (\E t \in Terminals : proc[t].at \in Composing) => disk.compose # NoFile
Typed == TypeOK /\ HoldsDomains /\ IsRendered

LEMMA MountTypes ==
  ASSUME TypeOK, NEW mount \in {None, "generated", "project"}
  PROVE  /\ phpIniMountSource(conf.ini) \in {None, "generated", "project"}
         /\ IniContent(conf.ini) \in Inis \cup {None}
         /\ Behind(mount) \in Inis \cup {None, Absent, Empty}
         /\ PhpReads(mount) \in Inis \cup {None, Empty}
<1> USE DEF TypeOK, Conf, IniSettings, NoIni, IniFileForm
<1>1. phpIniMountSource(conf.ini) \in {None, "generated", "project"}
  BY DEF phpIniMountSource, None
<1>2. IniContent(conf.ini) \in Inis \cup {None}
  BY DEF IniContent, phpIniMountSource, None
<1>3. Behind(mount) \in Inis \cup {None, Absent, Empty}
  BY DEF Behind, None
<1>4. QED
  BY <1>1, <1>2, <1>3 DEF PhpReads

\* A container, there or gone, and one that has read something again.
Running == [up : {TRUE}, made : Made, reads : Domains \cup Inis \cup {None, Empty}, again : BOOLEAN]
LEMMA ContainerFacts ==
  ASSUME NEW c \in Container
  PROVE  /\ c.up \in BOOLEAN /\ c.made \in Made
         /\ c.up => c \in Running
<1>1. CASE c = Gone
  BY <1>1 DEF Gone, Made, NotMade
<1>2. CASE c \in Running
  BY <1>2 DEF Running
<1>3. QED
  BY <1>1, <1>2 DEF Container, Running

LEMMA ReadsAgain ==
  ASSUME NEW c \in Container, c.up, NEW r \in Domains \cup Inis \cup {None, Empty}
  PROVE  [c EXCEPT !.reads = r] \in Container /\ [c EXCEPT !.reads = r, !.again = TRUE] \in Container
<1>1. c \in Running
  BY ContainerFacts
<1>2. [c EXCEPT !.reads = r] \in Running /\ [c EXCEPT !.reads = r, !.again = TRUE] \in Running
  BY <1>1 DEF Running
<1>3. QED
  BY <1>2 DEF Container, Running

LEMMA UppedTypes ==
  ASSUME TypeOK, NEW t \in Terminals, disk.nginx \in Domains
  PROVE  Upped(t, "web", web) \in Container /\ Upped(t, "php", php) \in Container
<1>1. MadeOf("web") \in Made /\ MadeOf("php") \in Made
  BY DEF TypeOK, MadeOf, Made, NoFile
<1>2. disk.compose.mount \in {None, "generated", "project"}
  BY DEF TypeOK, NoFile
<1>3. PhpReads(disk.compose.mount) \in Inis \cup {None, Empty}
  BY <1>2, MountTypes
<1>4. proc[t].alone \in BOOLEAN
  BY DEF TypeOK, Processes
<1>5. QED
  BY <1>1, <1>3, <1>4 DEF Upped, Container, TypeOK


\* What a command's own step has to show: its new state is a command's, and it
\* has written what its new point supposes.
LEMMA GoesTyped ==
  ASSUME Typed, NEW t \in Terminals, NEW p \in Processes, Goes(t, p),
         p.at \in Loading => p.domains \in Domains,
         p.at \in Rendering => disk'.nginx \in Domains,
         p.at \in Composing => disk'.compose # NoFile,
         disk'.nginx \in {disk.nginx} \cup Domains,
         disk'.compose = disk.compose \/ disk'.compose # NoFile,
         web'.up => web.up \/ disk'.nginx \in Domains
  PROVE  proc' \in [Terminals -> Processes] /\ HoldsDomains' /\ IsRendered'
<1> USE DEF Typed, TypeOK
<1>1. /\ proc' \in [Terminals -> Processes]
      /\ proc'[t] = p
      /\ \A u \in Terminals \ {t} : proc'[u].at = proc[u].at /\ proc'[u].domains = proc[u].domains
  BY GoesFacts
<1>2. HoldsDomains'
  BY <1>1 DEF HoldsDomains
<1>3. IsRendered'
  <2>1. web'.up \/ (\E u \in Terminals : proc'[u].at \in Rendering) => disk'.nginx \in Domains
    BY <1>1 DEF IsRendered
  <2>2. (\E u \in Terminals : proc'[u].at \in Composing) => disk'.compose # NoFile
    BY <1>1 DEF IsRendered
  <2>3. QED
    BY <2>1, <2>2 DEF IsRendered
<1>4. QED
  BY <1>1, <1>2, <1>3

\* What a step that leaves the commands' points alone keeps.
LEMMA SameTyped ==
  ASSUME Typed, proc' \in [Terminals -> Processes], UNCHANGED disk, web'.up => web.up,
         \A u \in Terminals :
           \/ proc'[u].at = proc[u].at /\ proc'[u].domains = proc[u].domains
           \/ proc'[u].at = "idle"
           \/ proc'[u].at = "ini" /\ proc'[u].domains \in Domains
  PROVE  HoldsDomains' /\ IsRendered'
BY DEF Typed, HoldsDomains, IsRendered, Loading, Rendering, Composing

LEMMA TypedStart ==
  ASSUME Typed, NEW t \in Terminals, Start(t)
  PROVE  Typed'
<1> USE DEF Typed
<1>1. PICK c \in Commands : proc' = [proc EXCEPT ![t] = Loaded("ini", c, conf.domains)]
  BY DEF Start
<1>2. conf.domains \in Domains
  BY DEF TypeOK, Conf
<1>3. Loaded("ini", c, conf.domains) \in Processes
  BY <1>2, LoadedType DEF Points
<1>4. proc' \in [Terminals -> Processes]
  BY <1>1, <1>3 DEF TypeOK
<1>5. count' \in [made : 0..MaxEdits, commands : 0..MaxCommands]
  BY ConstantsAssumption DEF TypeOK, Start
<1>6. TypeOK'
  BY <1>4, <1>5 DEF TypeOK, Start, Conf
<1>7. \A u \in Terminals : \/ proc'[u] = proc[u]
                           \/ proc'[u].at = "ini" /\ proc'[u].domains \in Domains
  BY <1>1, <1>2 DEF Loaded, TypeOK
<1>8. HoldsDomains' /\ IsRendered'
  BY <1>4, <1>7, SameTyped DEF Start
<1>9. QED
  BY <1>6, <1>8

LEMMA TypedSyncPhpIni ==
  ASSUME Typed, NEW t \in Terminals, syncPhpIni(t)
  PROVE  Typed'
<1> USE DEF Typed
<1> DEFINE new == IF conf.ini.form = "map" THEN conf.ini.value ELSE Emptied(disk.ini)
           p == [proc[t] EXCEPT !.at = "nginx", !.mount = phpIniMountSource(conf.ini),
                                !.hash = IniContent(conf.ini), !.changed = new # disk.ini]
<1>1. disk' = [disk EXCEPT !.ini = new] /\ Goes(t, p) /\ proc[t].at = "ini"
  BY DEF syncPhpIni, At
<1>2. new \in Inis \cup {Absent, Empty}
  BY DEF TypeOK, Conf, IniSettings, NoIni, IniFileForm, Emptied
<1>3. phpIniMountSource(conf.ini) \in {None, "generated", "project"} /\ IniContent(conf.ini) \in Inis \cup {None}
  BY MountTypes
<1>4. p \in Processes /\ p.at = "nginx" /\ p.domains \in Domains
  <2>1. proc[t] \in Processes /\ proc[t].domains \in Domains
    BY <1>1 DEF TypeOK, HoldsDomains, Loading
  <2>2. QED
    BY <2>1, <1>3 DEF Processes, Points
<1> HIDE DEF p, new
<1>5. /\ disk'.nginx = disk.nginx /\ disk'.compose = disk.compose
      /\ disk' \in [ini : Inis \cup {Absent, Empty}, nginx : Domains \cup {Absent},
              compose : [domains : Domains, mount : {None, "generated", "project"},
                         hash : Inis \cup {None}] \cup {NoFile},
              copy : Overrides \cup {Absent}]
  BY <1>1, <1>2 DEF TypeOK
<1>6. proc' \in [Terminals -> Processes] /\ HoldsDomains' /\ IsRendered'
  BY <1>1, <1>4, <1>5, GoesTyped DEF syncPhpIni, Loading, Rendering, Composing
<1>7. QED
  BY <1>5, <1>6 DEF TypeOK, syncPhpIni, Conf

LEMMA TypedWriteNginxConf ==
  ASSUME Typed, NEW t \in Terminals, writeNginxConf(t)
  PROVE  Typed'
<1> USE DEF Typed
<1> DEFINE differs == proc[t].domains # disk.nginx
           p == [proc[t] EXCEPT !.at = "compose", !.changed = @ \/ differs]
<1>1. /\ disk' = [disk EXCEPT !.nginx = proc[t].domains] /\ Goes(t, p) /\ proc[t].at = "nginx"
      /\ unseen' = (unseen \/ (differs /\ web.up /\ ~IsUp(t)))
  BY DEF writeNginxConf, At
<1>2. proc[t].domains \in Domains
  BY <1>1 DEF HoldsDomains, Loading
<1>3. p \in Processes /\ p.at = "compose" /\ p.domains \in Domains
  <2>1. proc[t] \in Processes
    BY DEF TypeOK
  <2>2. QED
    BY <2>1, <1>2 DEF Processes, Points
<1> HIDE DEF p, differs
<1>4. /\ disk'.nginx \in Domains /\ disk'.compose = disk.compose
      /\ disk' \in [ini : Inis \cup {Absent, Empty}, nginx : Domains \cup {Absent},
              compose : [domains : Domains, mount : {None, "generated", "project"},
                         hash : Inis \cup {None}] \cup {NoFile},
              copy : Overrides \cup {Absent}]
  BY <1>1, <1>2 DEF TypeOK
<1>5. proc' \in [Terminals -> Processes] /\ HoldsDomains' /\ IsRendered'
  BY <1>1, <1>3, <1>4, GoesTyped DEF writeNginxConf, Loading, Composing
<1>6. unseen' \in BOOLEAN
  BY <1>1
<1>7. QED
  BY <1>4, <1>5, <1>6 DEF TypeOK, writeNginxConf, Conf

LEMMA TypedWriteComposeFile ==
  ASSUME Typed, NEW t \in Terminals, writeComposeFile(t)
  PROVE  Typed'
<1> USE DEF Typed
<1> DEFINE p == [proc[t] EXCEPT !.at = "overrides", !.changed = @ \/ ComposeFile(t) # disk.compose]
<1>1. disk' = [disk EXCEPT !.compose = ComposeFile(t)] /\ Goes(t, p) /\ proc[t].at = "compose"
  BY DEF writeComposeFile, At
<1>2. disk.nginx \in Domains /\ proc[t].domains \in Domains
  BY <1>1 DEF HoldsDomains, IsRendered, Loading, Rendering
<1>3. /\ ComposeFile(t) \in [domains : Domains, mount : {None, "generated", "project"}, hash : Inis \cup {None}]
      /\ ComposeFile(t) # NoFile
  <2>1. proc[t] \in Processes /\ None \notin Domains
    BY ConstantsAssumption DEF TypeOK
  <2>2. QED
    BY <2>1, <1>2 DEF ComposeFile, NoFile, Processes
<1>4. p \in Processes /\ p.at = "overrides"
  <2>1. proc[t] \in Processes
    BY DEF TypeOK
  <2>2. QED
    BY <2>1 DEF Processes, Points
<1> HIDE DEF p
<1>5. /\ disk'.nginx = disk.nginx /\ disk'.compose # NoFile
      /\ disk' \in [ini : Inis \cup {Absent, Empty}, nginx : Domains \cup {Absent},
              compose : [domains : Domains, mount : {None, "generated", "project"},
                         hash : Inis \cup {None}] \cup {NoFile},
              copy : Overrides \cup {Absent}]
  BY <1>1, <1>3 DEF TypeOK
<1>6. proc' \in [Terminals -> Processes] /\ HoldsDomains' /\ IsRendered'
  BY <1>1, <1>2, <1>4, <1>5, GoesTyped DEF writeComposeFile, Loading
<1>7. QED
  BY <1>5, <1>6 DEF TypeOK, writeComposeFile, Conf

LEMMA TypedWriteComposeOverrides ==
  ASSUME Typed, NEW t \in Terminals, writeComposeOverrides(t)
  PROVE  Typed'
<1> USE DEF Typed
<1>1. PICK next \in {"run", "clean"} :
        Goes(t, [Loaded(next, proc[t].cmd, None) EXCEPT
                  !.broken = project.override = Broken, !.alone = proc[t].alone,
                  !.changed = IsUp(t) /\ (proc[t].changed \/ ResolvedCopy # disk.copy)])
  BY DEF writeComposeOverrides
<1> DEFINE p == [Loaded(next, proc[t].cmd, None) EXCEPT
                  !.broken = project.override = Broken, !.alone = proc[t].alone,
                  !.changed = IsUp(t) /\ (proc[t].changed \/ ResolvedCopy # disk.copy)]
<1>2. disk' = [disk EXCEPT !.copy = ResolvedCopy] /\ proc[t].at = "overrides"
  BY DEF writeComposeOverrides, At
<1>3. disk.nginx \in Domains /\ disk.compose # NoFile
  BY <1>2 DEF IsRendered, Rendering, Composing
<1>4. p \in Processes /\ p.at \in {"run", "clean"}
  <2>1. proc[t] \in Processes
    BY DEF TypeOK
  <2>2. Loaded(next, proc[t].cmd, None) \in Processes
    BY <2>1, LoadedType DEF Processes, Points
  <2>3. Loaded(next, proc[t].cmd, None).at = next
    BY DEF Loaded
  <2>4. QED
    BY <2>1, <2>2, <2>3 DEF Processes
<1> HIDE DEF p
<1>5. ResolvedCopy \in Overrides \cup {Absent}
  BY DEF ResolvedCopy, TypeOK
<1>6. /\ disk'.nginx = disk.nginx /\ disk'.compose = disk.compose
      /\ disk' \in [ini : Inis \cup {Absent, Empty}, nginx : Domains \cup {Absent},
              compose : [domains : Domains, mount : {None, "generated", "project"},
                         hash : Inis \cup {None}] \cup {NoFile},
              copy : Overrides \cup {Absent}]
  BY <1>2, <1>5 DEF TypeOK
<1>7. Goes(t, p)
  BY <1>1 DEF p
<1>8. proc' \in [Terminals -> Processes] /\ HoldsDomains' /\ IsRendered'
  BY <1>3, <1>4, <1>6, <1>7, GoesTyped DEF writeComposeOverrides, Loading
<1>9. QED
  BY <1>6, <1>8 DEF TypeOK, writeComposeOverrides, Conf


\* What a step of a command that has come to compose has to show.
LEMMA TypedRuns ==
  ASSUME Typed, NEW t \in Terminals, NEW p \in Processes, Goes(t, p),
         proc[t].at \in {"clean", "run", "reload"}, p.at \in {"idle", "run", "reload", "done"},
         UNCHANGED <<conf, project, disk, count>>,
         web' \in Container, php' \in Container, unseen' \in BOOLEAN
  PROVE  Typed'
<1> USE DEF Typed
<1>1. disk.nginx \in Domains /\ disk.compose # NoFile
  BY DEF IsRendered, Rendering, Composing
<1>2. proc' \in [Terminals -> Processes] /\ HoldsDomains' /\ IsRendered'
  BY <1>1, GoesTyped DEF Loading
<1>3. TypeOK'
  BY <1>2 DEF TypeOK, Conf
<1>4. QED
  BY <1>2, <1>3

LEMMA Moved ==
  ASSUME NEW q \in Processes, NEW at \in Points
  PROVE  [q EXCEPT !.at = at] \in Processes /\ [q EXCEPT !.at = at].at = at
BY DEF Processes

LEMMA TypedCompose ==
  ASSUME Typed, NEW t \in Terminals,
         \/ RunComposeRefused(t) \/ CleanFirst(t) \/ Up(t) \/ UpFails(t)
         \/ ReloadWebServer(t) \/ Down(t) \/ EnsureServicesRunning(t)
  PROVE  Typed'
<1> USE DEF Typed
<1>1. proc[t] \in Processes /\ web \in Container /\ php \in Container /\ unseen \in BOOLEAN
  BY DEF TypeOK
<1>2. Idle \in Processes /\ Idle.at = "idle"
  BY LoadedType DEF Idle, Loaded, Points, Commands
<1>3. Finished(t) \in Processes /\ Finished(t).at = "done"
  BY <1>1, Moved DEF Finished, Points
<1>4. Gone \in Container
  BY DEF Container
<1>5. ASSUME proc[t].at = "run"
      PROVE  Upped(t, "web", web) \in Container /\ Upped(t, "php", php) \in Container
  BY <1>5, UppedTypes DEF IsRendered, Rendering
<1>6. CASE RunComposeRefused(t)
  BY <1>1, <1>2, <1>6, TypedRuns DEF RunComposeRefused, Owed, IsUp
<1>7. CASE CleanFirst(t)
  <2> DEFINE p == [proc[t] EXCEPT !.at = "run"]
  <2>1. p \in Processes /\ p.at = "run"
    BY <1>1, Moved DEF Points
  <2>2. Goes(t, p)
    BY <1>7 DEF CleanFirst
  <2> HIDE DEF p
  <2>3. QED
    BY <1>1, <1>4, <1>7, <2>1, <2>2, TypedRuns DEF CleanFirst, At
<1>8. CASE Up(t)
  <2> DEFINE at == IF proc[t].changed THEN "reload" ELSE "done"
             p == [Finished(t) EXCEPT !.at = at]
  <2>1. p \in Processes /\ p.at \in {"reload", "done"}
    <3>1. at \in Points /\ at \in {"reload", "done"}
      BY DEF Points
    <3> HIDE DEF at
    <3>2. QED
      BY <1>3, <3>1, Moved
  <2>2. Goes(t, p)
    BY <1>8 DEF Up
  <2> HIDE DEF p
  <2>3. proc[t].at = "run" /\ web' = Upped(t, "web", web) /\ php' = Upped(t, "php", php)
    BY <1>8 DEF Up, At
  <2>4. unseen' \in BOOLEAN /\ UNCHANGED <<conf, project, disk, count>>
    BY <1>1, <1>8 DEF Up
  <2>5. QED
    BY <1>5, <2>1, <2>2, <2>3, <2>4, TypedRuns
<1>9. CASE UpFails(t)
  <2>1. /\ proc[t].at = "run" /\ Goes(t, Idle) /\ UNCHANGED <<conf, project, disk, count>>
        /\ web' \in {web, Upped(t, "web", web)} /\ php' \in {php, Upped(t, "php", php)}
    BY <1>9 DEF UpFails, At
  <2>2. unseen' \in BOOLEAN
    BY <1>9 DEF UpFails
  <2>3. QED
    BY <1>1, <1>2, <1>5, <2>1, <2>2, TypedRuns
<1>10. CASE ReloadWebServer(t)
  <2> DEFINE p == [proc[t] EXCEPT !.at = "done"]
  <2>1. p \in Processes /\ p.at = "done"
    BY <1>1, Moved DEF Points
  <2>2. /\ Goes(t, p) /\ proc[t].at = "reload" /\ UNCHANGED <<conf, project, disk, count, php>>
        /\ web' = web \/ (web.up /\ web' = [web EXCEPT !.reads = disk.nginx])
    <3>1. Goes(t, p) /\ proc[t].at = "reload" /\ UNCHANGED <<conf, project, disk, count, php>>
      BY <1>10 DEF ReloadWebServer, At
    <3>2. web' = web \/ (web.up /\ web' = [web EXCEPT !.reads = disk.nginx])
      BY <1>10 DEF ReloadWebServer
    <3>3. QED
      BY <3>1, <3>2
  <2>3. unseen' \in BOOLEAN
    BY <1>1, <1>10 DEF ReloadWebServer
  <2> HIDE DEF p
  <2>4. disk.nginx \in Domains
    BY <2>2 DEF IsRendered, Rendering
  <2>5. web' \in Container
    BY <1>1, <2>2, <2>4, ReadsAgain
  <2>6. QED
    BY <1>1, <2>1, <2>2, <2>3, <2>5, TypedRuns
<1>11. CASE Down(t)
  <2> DEFINE p == IF web' = Gone /\ php' = Gone THEN Finished(t) ELSE Idle
  <2>1. p \in Processes /\ p.at \in {"idle", "done"}
    BY <1>2, <1>3
  <2>2. /\ Goes(t, p) /\ proc[t].at = "run" /\ UNCHANGED <<conf, project, disk, count>>
        /\ web' \in {web, Gone} /\ php' \in {php, Gone}
    BY <1>11 DEF Down, At
  <2>3. web'.up \in BOOLEAN /\ unseen' = (unseen /\ web'.up)
    BY <1>1, <1>4, <2>2, <1>11, ContainerFacts DEF Down
  <2> HIDE DEF p
  <2>4. QED
    BY <1>1, <1>4, <2>1, <2>2, <2>3, TypedRuns
<1>12. CASE EnsureServicesRunning(t)
  <2>1. /\ proc[t].at = "run" /\ Goes(t, Idle) /\ UNCHANGED <<conf, project, disk, count>>
        /\ web' = Upped(t, "web", web) /\ php' = Upped(t, "php", php)
    BY <1>12 DEF EnsureServicesRunning, At
  <2>2. unseen' \in BOOLEAN
    BY <1>1, <1>12 DEF EnsureServicesRunning
  <2>3. QED
    BY <1>2, <1>5, <2>1, <2>2, TypedRuns
<1>13. QED
  BY <1>6, <1>7, <1>8, <1>9, <1>10, <1>11, <1>12

LEMMA TypedEnds ==
  ASSUME Typed, NEW t \in Terminals, Exec(t) \/ Kill(t)
  PROVE  Typed'
<1> USE DEF Typed
<1>1. proc' = [proc EXCEPT ![t] = Idle] /\ UNCHANGED <<conf, project, disk, web, php, count>>
  BY DEF Exec, Kill
<1>2. Idle \in Processes /\ Idle.at = "idle"
  BY LoadedType DEF Idle, Loaded, Points, Commands
<1>3. proc' \in [Terminals -> Processes]
  BY <1>1, <1>2 DEF TypeOK
<1>4. \A u \in Terminals : proc'[u] = proc[u] \/ proc'[u].at = "idle"
  BY <1>1, <1>2 DEF TypeOK
<1>5. HoldsDomains' /\ IsRendered'
  BY <1>1, <1>3, <1>4, SameTyped
<1>6. unseen' \in BOOLEAN
  BY DEF Exec, Kill, Owed, TypeOK
<1>7. QED
  BY <1>1, <1>3, <1>5, <1>6 DEF TypeOK, Conf

LEMMA TypedEnvironment ==
  ASSUME Typed, RestartWeb \/ RestartPhp \/ Edit
  PROVE  Typed'
<1> USE DEF Typed
<1>1. proc' = [t \in Terminals |-> [proc[t] EXCEPT !.alone = FALSE]] /\ UNCHANGED disk
  BY DEF RestartWeb, RestartPhp, Edit
<1>2. /\ proc' \in [Terminals -> Processes]
      /\ \A u \in Terminals : proc'[u].at = proc[u].at /\ proc'[u].domains = proc[u].domains
  BY <1>1, NobodyAlone DEF TypeOK
<1>3. web'.up => web.up
  BY DEF RestartWeb, RestartPhp, Edit, TypeOK, Container, Gone
<1>4. HoldsDomains' /\ IsRendered'
  BY <1>1, <1>2, <1>3, SameTyped
<1>5. CASE RestartWeb
  <2>1. web' \in Container
    BY <1>5, ReadsAgain DEF RestartWeb, IsRendered, TypeOK
  <2>2. QED
    BY <1>1, <1>2, <1>4, <1>5, <2>1 DEF RestartWeb, TypeOK, Conf
<1>6. CASE RestartPhp
  <2>1. php \in Container /\ php.up
    BY <1>6 DEF RestartPhp, TypeOK
  <2>2. php.made \in Made /\ php.made.mount \in {None, "generated", "project"}
    BY <2>1, ContainerFacts DEF Made
  <2>3. Behind(php.made.mount) \in Inis \cup {None, Absent, Empty}
    BY <2>2, MountTypes
  <2>4. php' \in Container
    <3>1. CASE Behind(php.made.mount) = Absent
      BY <1>6, <3>1 DEF RestartPhp, Container
    <3>2. CASE Behind(php.made.mount) # Absent
      BY <1>6, <2>1, <2>3, <3>2, ReadsAgain DEF RestartPhp
    <3>3. QED
      BY <3>1, <3>2
  <2>5. QED
    BY <1>1, <1>2, <1>4, <1>6, <2>4 DEF RestartPhp, TypeOK, Conf
<1>7. CASE Edit
  <2>1. count' \in [made : 0..MaxEdits, commands : 0..MaxCommands]
    BY <1>7, ConstantsAssumption DEF Edit, TypeOK
  <2>2. conf' \in Conf
    BY <1>7 DEF Edit, TypeOK, Conf
  <2>3. project' \in [ini : Inis \cup {Absent}, override : Overrides \cup {Absent, Broken}]
    BY <1>7 DEF Edit, TypeOK
  <2>4. QED
    BY <1>1, <1>2, <1>4, <1>7, <2>1, <2>2, <2>3 DEF Edit, TypeOK
<1>8. QED
  BY <1>5, <1>6, <1>7

LEMMA TypedInit == Init => Typed
<1> SUFFICES ASSUME Init PROVE Typed
  OBVIOUS
<1>1. \A t \in Terminals : proc[t] = Idle
  BY DEF Init
<1>2. Idle \in Processes /\ Idle.at = "idle"
  BY LoadedType DEF Idle, Loaded, Points, Commands
<1>3. web.up = FALSE
  BY DEF Init, Gone
<1>4. HoldsDomains /\ IsRendered
  BY <1>1, <1>2, <1>3 DEF HoldsDomains, IsRendered, Loading, Rendering, Composing
<1>5. TypeOK
  <2>1. /\ conf \in Conf /\ unseen \in BOOLEAN
        /\ project \in [ini : Inis \cup {Absent}, override : Overrides \cup {Absent, Broken}]
    BY DEF Init, Conf
  <2>2. disk \in [ini : Inis \cup {Absent, Empty}, nginx : Domains \cup {Absent},
                  compose : [domains : Domains, mount : {None, "generated", "project"},
                             hash : Inis \cup {None}] \cup {NoFile},
                  copy : Overrides \cup {Absent}]
    BY DEF Init
  <2>3. web \in Container /\ php \in Container /\ proc \in [Terminals -> Processes]
    BY <1>2 DEF Init, Container
  <2>4. count \in [made : 0..MaxEdits, commands : 0..MaxCommands]
    BY ConstantsAssumption DEF Init
  <2>5. QED
    BY <2>1, <2>2, <2>3, <2>4 DEF TypeOK
<1>6. QED
  BY <1>4, <1>5 DEF Typed

LEMMA TypedStep == Typed /\ [Next]_vars => Typed'
<1> SUFFICES ASSUME Typed, [Next]_vars PROVE Typed'
  OBVIOUS
<1>1. ASSUME NEW t \in Terminals,
             \/ Start(t) \/ syncPhpIni(t) \/ writeNginxConf(t) \/ writeComposeFile(t)
             \/ writeComposeOverrides(t)
      PROVE  Typed'
  BY <1>1, TypedStart, TypedSyncPhpIni, TypedWriteNginxConf, TypedWriteComposeFile,
     TypedWriteComposeOverrides
<1>2. CASE UNCHANGED vars
  BY <1>2 DEF vars, Typed, TypeOK, HoldsDomains, IsRendered, Conf
<1>3. QED
  BY <1>1, <1>2, TypedCompose, TypedEnds, TypedEnvironment DEF Next

(* Every variable keeps its type, in every state that any number of         *)
(* terminals, commands and edits can reach.                                 *)
THEOREM TypeCorrect == Spec => []TypeOK
<1>1. Spec => []Typed
  BY TypedInit, TypedStep, PTL DEF Spec
<1>2. Typed => TypeOK
  BY DEF Typed
<1>3. QED
  BY <1>1, <1>2, PTL

-----------------------------------------------------------------------------
(* The strengthening. What an undisturbed command knows grows with every    *)
(* file it writes: each conjunct is the postcondition of one write, kept    *)
(* because every other write ends that command's being alone.               *)

Synced == {"nginx", "compose", "overrides", "clean", "run", "reload", "done"}
Served == Synced \ {"nginx"}
Composed == Served \ {"compose"}
Resolved == Composed \ {"overrides"}

Mounted == [domains |-> conf.domains, mount |-> phpIniMountSource(conf.ini),
            hash |-> IniContent(conf.ini)]

Knows(t) ==
  /\ proc[t].at \in Loading => proc[t].domains = conf.domains
  /\ proc[t].at \in {"nginx", "compose"} =>
       proc[t].mount = phpIniMountSource(conf.ini) /\ proc[t].hash = IniContent(conf.ini)
  /\ proc[t].at \in Synced => (conf.ini.form = "map" => disk.ini = conf.ini.value)
  /\ proc[t].at \in Served => disk.nginx = conf.domains
  /\ proc[t].at \in Composed => disk.compose = Mounted
  /\ proc[t].at \in Resolved =>
       disk.copy = ResolvedCopy /\ (project.override = Broken => proc[t].broken)
  /\ proc[t].at \in {"reload", "done"} /\ IsUp(t) =>
       /\ web.up /\ web.made = MadeOf("web")
       /\ php.up /\ php.made = MadeOf("php")
Undisturbed == \A t \in Terminals : proc[t].alone => Knows(t)

\* A command that got as far as compose was not refused; one that has not
\* regenerated anything yet has changed nothing.
Steps == \A t \in Terminals :
  /\ proc[t].at \in {"reload", "done"} => ~proc[t].broken
  /\ proc[t].at \in {"idle", "ini"} => ~proc[t].changed

\* As long as there is no generated ini, nothing mounts it.
IniThere == disk.ini = Absent =>
  /\ disk.compose.mount # "generated" /\ php.made.mount # "generated"
  /\ \A t \in Terminals : proc[t].at \in {"nginx", "compose"} => proc[t].mount # "generated"

\* PHP has read the content its label names, unless it was made or restarted
\* while somebody wrote.
ReadsItsLabel == php.up /\ ~php.again => php.reads = php.made.hash

\* The web server serves the nginx.conf there is, or a reload is owed or lost.
WebFresh == web.up =>
  unseen \/ web.reads = disk.nginx \/ \E u \in Terminals : Owed(u) /\ ~At(u, "done")

IInv == Typed /\ Steps /\ IniThere /\ ReadsItsLabel /\ WebFresh /\ Undisturbed

-----------------------------------------------------------------------------
(* What a step of a command does to that command and to the others.         *)

Command(t) ==
  \/ syncPhpIni(t) \/ writeNginxConf(t) \/ writeComposeFile(t)
  \/ writeComposeOverrides(t) \/ RunComposeRefused(t) \/ CleanFirst(t)
  \/ Up(t) \/ UpFails(t) \/ ReloadWebServer(t) \/ Down(t) \/ EnsureServicesRunning(t)

Others(t) == \A u \in Terminals \ {t} :
  /\ proc'[u].at = proc[u].at /\ proc'[u].cmd = proc[u].cmd
  /\ proc'[u].domains = proc[u].domains /\ proc'[u].mount = proc[u].mount
  /\ proc'[u].hash = proc[u].hash /\ proc'[u].changed = proc[u].changed
  /\ proc'[u].broken = proc[u].broken /\ proc'[u].alone = FALSE

Moves(t, point) ==
  /\ proc'[t].at = point /\ proc'[t].cmd = proc[t].cmd
  /\ proc'[t].domains = proc[t].domains /\ proc'[t].broken = proc[t].broken
  /\ proc'[t].alone = proc[t].alone

Ends(t) == proc'[t].at = "idle" /\ ~proc'[t].changed

LEMMA Next_Actions ==
  ASSUME [Next]_vars
  PROVE  \/ \E t \in Terminals : Start(t) \/ Command(t) \/ Exec(t) \/ Kill(t)
         \/ RestartWeb \/ RestartPhp \/ Edit \/ UNCHANGED vars
BY DEF Next, Command

LEMMA GoesIs ==
  ASSUME Typed, NEW t \in Terminals, NEW p, Goes(t, p)
  PROVE  proc'[t] = p /\ Others(t)
BY DEF Goes, Disturb, Others, Typed, TypeOK, Processes

LEMMA RegenerationFacts ==
  ASSUME Typed, NEW t \in Terminals
  PROVE  /\ syncPhpIni(t) => /\ Moves(t, "nginx") /\ Others(t)
                             /\ proc'[t].mount = phpIniMountSource(conf.ini)
                             /\ proc'[t].hash = IniContent(conf.ini)
         /\ writeNginxConf(t) => /\ Moves(t, "compose") /\ Others(t)
                                 /\ proc'[t].mount = proc[t].mount /\ proc'[t].hash = proc[t].hash
                                 /\ proc'[t].changed = (proc[t].changed \/ proc[t].domains # disk.nginx)
         /\ writeComposeFile(t) => /\ Moves(t, "overrides") /\ Others(t)
                                   /\ proc[t].changed => proc'[t].changed
         /\ writeComposeOverrides(t) =>
              /\ proc'[t].at \in {"run", "clean"} /\ proc'[t].cmd = proc[t].cmd
              /\ proc'[t].alone = proc[t].alone /\ proc'[t].broken = (project.override = Broken)
              /\ IsUp(t) /\ proc[t].changed => proc'[t].changed
              /\ Others(t)
<1>1. proc[t] \in Processes
  BY DEF Typed, TypeOK
<1>2. ASSUME syncPhpIni(t)
      PROVE  /\ Moves(t, "nginx") /\ Others(t)
             /\ proc'[t].mount = phpIniMountSource(conf.ini)
             /\ proc'[t].hash = IniContent(conf.ini)
  <2> DEFINE new == IF conf.ini.form = "map" THEN conf.ini.value ELSE Emptied(disk.ini)
             p == [proc[t] EXCEPT !.at = "nginx", !.mount = phpIniMountSource(conf.ini),
                                  !.hash = IniContent(conf.ini), !.changed = new # disk.ini]
  <2>1. Goes(t, p)
    BY <1>2 DEF syncPhpIni
  <2>2. proc'[t] = p /\ Others(t)
    BY <2>1, GoesIs
  <2>3. QED
    BY <1>1, <2>2 DEF Moves, Processes
<1>3. ASSUME writeNginxConf(t)
      PROVE  /\ Moves(t, "compose") /\ Others(t)
             /\ proc'[t].mount = proc[t].mount /\ proc'[t].hash = proc[t].hash
             /\ proc'[t].changed = (proc[t].changed \/ proc[t].domains # disk.nginx)
  <2> DEFINE p == [proc[t] EXCEPT !.at = "compose", !.changed = @ \/ proc[t].domains # disk.nginx]
  <2>1. Goes(t, p)
    BY <1>3 DEF writeNginxConf
  <2>2. proc'[t] = p /\ Others(t)
    BY <2>1, GoesIs
  <2>3. QED
    BY <1>1, <2>2 DEF Moves, Processes
<1>4. ASSUME writeComposeFile(t)
      PROVE  Moves(t, "overrides") /\ Others(t) /\ (proc[t].changed => proc'[t].changed)
  <2> DEFINE p == [proc[t] EXCEPT !.at = "overrides", !.changed = @ \/ ComposeFile(t) # disk.compose]
  <2>1. Goes(t, p)
    BY <1>4 DEF writeComposeFile
  <2>2. proc'[t] = p /\ Others(t)
    BY <2>1, GoesIs
  <2>3. QED
    BY <1>1, <2>2 DEF Moves, Processes
<1>5. ASSUME writeComposeOverrides(t)
      PROVE  /\ proc'[t].at \in {"run", "clean"} /\ proc'[t].cmd = proc[t].cmd
             /\ proc'[t].alone = proc[t].alone /\ proc'[t].broken = (project.override = Broken)
             /\ IsUp(t) /\ proc[t].changed => proc'[t].changed
             /\ Others(t)
  <2>1. PICK next \in {"run", "clean"} :
          Goes(t, [Loaded(next, proc[t].cmd, None) EXCEPT
                    !.broken = project.override = Broken, !.alone = proc[t].alone,
                    !.changed = IsUp(t) /\ (proc[t].changed \/ ResolvedCopy # disk.copy)])
    BY <1>5 DEF writeComposeOverrides
  <2>2. /\ proc'[t] = [Loaded(next, proc[t].cmd, None) EXCEPT
                    !.broken = project.override = Broken, !.alone = proc[t].alone,
                    !.changed = IsUp(t) /\ (proc[t].changed \/ ResolvedCopy # disk.copy)]
        /\ Others(t)
    BY <2>1, GoesIs
  <2>3. QED
    BY <2>2 DEF Loaded
<1>6. QED
  BY <1>2, <1>3, <1>4, <1>5

LEMMA ComposeFacts ==
  ASSUME Typed, NEW t \in Terminals
  PROVE  /\ RunComposeRefused(t) \/ UpFails(t) \/ EnsureServicesRunning(t) => Ends(t) /\ Others(t)
         /\ CleanFirst(t) => Moves(t, "run") /\ proc'[t].changed = proc[t].changed /\ Others(t)
         /\ Up(t) => /\ Moves(t, IF proc[t].changed THEN "reload" ELSE "done") /\ Others(t)
                     /\ proc'[t].changed = proc[t].changed
         /\ ReloadWebServer(t) => Moves(t, "done") /\ Others(t)
         /\ Down(t) => (Moves(t, "done") \/ Ends(t)) /\ Others(t)
<1>1. proc[t] \in Processes
  BY DEF Typed, TypeOK
<1>2. ASSUME RunComposeRefused(t) \/ UpFails(t) \/ EnsureServicesRunning(t)
      PROVE  Ends(t) /\ Others(t)
  <2>1. Goes(t, Idle)
    BY <1>2 DEF RunComposeRefused, UpFails, EnsureServicesRunning
  <2>2. QED
    BY <2>1, GoesIs DEF Ends, Idle, Loaded
<1>3. ASSUME CleanFirst(t)
      PROVE  Moves(t, "run") /\ proc'[t].changed = proc[t].changed /\ Others(t)
  <2>1. Goes(t, [proc[t] EXCEPT !.at = "run"])
    BY <1>3 DEF CleanFirst
  <2>2. proc'[t] = [proc[t] EXCEPT !.at = "run"] /\ Others(t)
    BY <2>1, GoesIs
  <2>3. QED
    BY <1>1, <2>2 DEF Moves, Processes
<1>4. ASSUME Up(t)
      PROVE  /\ Moves(t, IF proc[t].changed THEN "reload" ELSE "done") /\ Others(t)
             /\ proc'[t].changed = proc[t].changed
  <2>1. Goes(t, [Finished(t) EXCEPT !.at = IF proc[t].changed THEN "reload" ELSE "done"])
    BY <1>4 DEF Up
  <2>2. /\ proc'[t] = [Finished(t) EXCEPT !.at = IF proc[t].changed THEN "reload" ELSE "done"]
        /\ Others(t)
    BY <2>1, GoesIs
  <2>3. QED
    BY <1>1, <2>2 DEF Moves, Processes, Finished
<1>5. ASSUME ReloadWebServer(t)
      PROVE  Moves(t, "done") /\ Others(t)
  <2>1. Goes(t, [proc[t] EXCEPT !.at = "done"])
    BY <1>5 DEF ReloadWebServer
  <2>2. proc'[t] = [proc[t] EXCEPT !.at = "done"] /\ Others(t)
    BY <2>1, GoesIs
  <2>3. QED
    BY <1>1, <2>2 DEF Moves, Processes
<1>6. ASSUME Down(t)
      PROVE  (Moves(t, "done") \/ Ends(t)) /\ Others(t)
  <2>1. Goes(t, IF web' = Gone /\ php' = Gone THEN Finished(t) ELSE Idle)
    BY <1>6 DEF Down
  <2>2. proc'[t] \in {Finished(t), Idle} /\ Others(t)
    BY <2>1, GoesIs
  <2>3. QED
    BY <1>1, <2>2 DEF Moves, Ends, Processes, Finished, Idle, Loaded
<1>7. QED
  BY <1>2, <1>3, <1>4, <1>5, <1>6

LEMMA EndFacts ==
  ASSUME Typed, NEW t \in Terminals
  PROVE  /\ Start(t) => /\ proc'[t].at = "ini" /\ proc'[t].domains = conf.domains
                        /\ ~proc'[t].changed /\ proc[t].at \in {"idle", "done"}
         /\ Exec(t) \/ Kill(t) => Ends(t)
         /\ Start(t) \/ Exec(t) \/ Kill(t) =>
              /\ \A u \in Terminals \ {t} : proc'[u] = proc[u]
              /\ UNCHANGED <<conf, project, disk, web, php>>
BY DEF Typed, TypeOK, Start, Exec, Kill, Loaded, Ends, Idle

LEMMA EnvironmentFacts ==
  ASSUME Typed, RestartWeb \/ RestartPhp \/ Edit
  PROVE  /\ \A u \in Terminals :
              /\ proc'[u].at = proc[u].at /\ proc'[u].cmd = proc[u].cmd
              /\ proc'[u].domains = proc[u].domains /\ proc'[u].mount = proc[u].mount
              /\ proc'[u].hash = proc[u].hash /\ proc'[u].changed = proc[u].changed
              /\ proc'[u].broken = proc[u].broken /\ proc'[u].alone = FALSE
         /\ UNCHANGED disk
<1>1. proc' = [t \in Terminals |-> [proc[t] EXCEPT !.alone = FALSE]] /\ UNCHANGED disk
  BY DEF RestartWeb, RestartPhp, Edit
<1>2. QED
  BY <1>1, NobodyAlone DEF Typed, TypeOK

-----------------------------------------------------------------------------
(* What the steps keep, one conjunct of the strengthening at a time.        *)

LEMMA StepsStep ==
  ASSUME Typed, Steps, [Next]_vars
  PROVE  Steps'
<1>1. ASSUME NEW t \in Terminals, Command(t)
      PROVE  Steps'
  <2>1. /\ Others(t)
        /\ proc'[t].at \in {"idle", "ini"} => ~proc'[t].changed
        /\ proc'[t].at \in {"reload", "done"} => ~proc'[t].broken
    BY <1>1, RegenerationFacts, ComposeFacts
       DEF Command, Moves, Ends, Steps, Up, ReloadWebServer, Down, At
  <2>2. QED
    BY <2>1 DEF Others, Steps
<1>2. ASSUME NEW t \in Terminals, Start(t) \/ Exec(t) \/ Kill(t)
      PROVE  Steps'
  BY <1>2, EndFacts DEF Ends, Steps
<1>3. CASE RestartWeb \/ RestartPhp \/ Edit
  BY <1>3, EnvironmentFacts DEF Steps
<1>4. CASE UNCHANGED vars
  BY <1>4 DEF vars, Steps
<1>5. QED
  BY <1>1, <1>2, <1>3, <1>4, Next_Actions

\* A container made now mounts what the compose file names.
LEMMA UppedMade ==
  ASSUME NEW t \in Terminals, NEW c, NEW service \in {"web", "php"}
  PROVE  /\ Upped(t, service, c).made = MadeOf(service)
         /\ MadeOf("php").mount = disk.compose.mount /\ MadeOf("php").hash = disk.compose.hash
BY DEF Upped, MadeOf

LEMMA IniThereStep ==
  ASSUME Typed, IniThere, [Next]_vars
  PROVE  IniThere'
<1>1. ASSUME NEW t \in Terminals, syncPhpIni(t)
      PROVE  IniThere'
  <2>1. /\ conf.ini.form = "map" => disk'.ini # Absent
        /\ conf.ini.form # "map" => disk'.ini = Emptied(disk.ini)
        /\ disk'.compose = disk.compose /\ php' = php
    BY <1>1, ConstantsAssumption
       DEF syncPhpIni, Typed, TypeOK, Conf, IniSettings, NoIni, IniFileForm
  <2>2. disk'.ini = Absent => disk.ini = Absent /\ phpIniMountSource(conf.ini) # "generated"
    BY <2>1 DEF Emptied, phpIniMountSource, Absent, Empty, None
  <2>3. QED
    <3>1. Others(t) /\ proc'[t].mount = phpIniMountSource(conf.ini)
      BY <1>1, RegenerationFacts
    <3>2. QED
      BY <2>1, <2>2, <3>1 DEF IniThere, Others
<1>2. ASSUME NEW t \in Terminals, writeNginxConf(t)
      PROVE  IniThere'
  <2>1. disk'.ini = disk.ini /\ disk'.compose = disk.compose /\ php' = php /\ proc[t].at = "nginx"
    BY <1>2 DEF writeNginxConf, At, Typed, TypeOK
  <2>2. QED
    <3>1. Others(t) /\ proc'[t].mount = proc[t].mount
      BY <1>2, RegenerationFacts
    <3>2. QED
      BY <2>1, <3>1 DEF IniThere, Others
<1>3. ASSUME NEW t \in Terminals, writeComposeFile(t)
      PROVE  IniThere'
  <2>1. /\ disk'.ini = disk.ini /\ disk'.compose.mount = proc[t].mount /\ php' = php
        /\ proc[t].at = "compose"
    BY <1>3 DEF writeComposeFile, ComposeFile, At, Typed, TypeOK
  <2>2. QED
    <3>1. Others(t) /\ proc'[t].at = "overrides"
      BY <1>3, RegenerationFacts DEF Moves
    <3>2. QED
      BY <2>1, <3>1 DEF IniThere, Others
<1>4. ASSUME NEW t \in Terminals, writeComposeOverrides(t)
      PROVE  IniThere'
  <2>1. disk'.ini = disk.ini /\ disk'.compose = disk.compose /\ php' = php
    BY <1>4 DEF writeComposeOverrides, Typed, TypeOK
  <2>2. QED
    <3>1. Others(t) /\ proc'[t].at \in {"run", "clean"}
      BY <1>4, RegenerationFacts
    <3>2. QED
      BY <2>1, <3>1 DEF IniThere, Others
<1>5. ASSUME NEW t \in Terminals,
             \/ RunComposeRefused(t) \/ CleanFirst(t) \/ Up(t) \/ UpFails(t)
             \/ ReloadWebServer(t) \/ Down(t) \/ EnsureServicesRunning(t)
      PROVE  IniThere'
  <2>1. disk' = disk /\ Others(t) /\ proc'[t].at \notin {"nginx", "compose"}
    BY <1>5, ComposeFacts DEF Moves, Ends, RunComposeRefused, CleanFirst, Up, UpFails,
       ReloadWebServer, Down, EnsureServicesRunning
  <2>2. php'.made.mount \in {php.made.mount, None, disk.compose.mount}
    BY <1>5, UppedMade DEF RunComposeRefused, CleanFirst, Up, UpFails,
       ReloadWebServer, Down, EnsureServicesRunning, Gone, NotMade
  <2>3. QED
    BY <2>1, <2>2 DEF IniThere, Others, None
<1>6. ASSUME NEW t \in Terminals, Start(t) \/ Exec(t) \/ Kill(t)
      PROVE  IniThere'
  BY <1>6, EndFacts DEF Ends, IniThere
<1>7. CASE RestartWeb \/ RestartPhp \/ Edit
  <2>1. php'.made.mount \in {php.made.mount, None}
    <3>1. CASE RestartPhp
      <4>1. php \in Running
        BY <3>1, ContainerFacts DEF RestartPhp, Typed, TypeOK
      <4>2. QED
        BY <3>1, <4>1 DEF RestartPhp, Running, Gone, NotMade
    <3>2. QED
      BY <1>7, <3>1 DEF RestartWeb, Edit
  <2>2. QED
    BY <1>7, <2>1, EnvironmentFacts DEF IniThere, None
<1>8. CASE UNCHANGED vars
  BY <1>8 DEF vars, IniThere
<1>9. QED
  BY <1>1, <1>2, <1>3, <1>4, <1>5, <1>6, <1>7, <1>8, Next_Actions DEF Command

\* PHP reads the content a command rendered when nobody came between.
LEMMA LabelIsTrue ==
  ASSUME Typed, NEW t \in Terminals, Knows(t), proc[t].at = "run"
  PROVE  PhpReads(disk.compose.mount) = disk.compose.hash
<1>1. /\ disk.compose.mount = phpIniMountSource(conf.ini) /\ disk.compose.hash = IniContent(conf.ini)
      /\ conf.ini.form = "map" => disk.ini = conf.ini.value
  BY DEF Knows, Synced, Served, Composed, Mounted
<1>2. conf.ini.form = "map" => conf.ini.value # Absent
  BY ConstantsAssumption DEF Typed, TypeOK, Conf, IniSettings, NoIni, IniFileForm
<1>3. QED
  BY <1>1, <1>2 DEF PhpReads, Behind, IniContent, phpIniMountSource, None, Absent

LEMMA ReadsItsLabelStep ==
  ASSUME Typed, ReadsItsLabel, Undisturbed, [Next]_vars
  PROVE  ReadsItsLabel'
<1>1. ASSUME NEW t \in Terminals, Up(t) \/ UpFails(t) \/ EnsureServicesRunning(t)
      PROVE  ReadsItsLabel'
  <2>1. proc[t].at = "run" /\ php' \in {php, Upped(t, "php", php)}
    BY <1>1 DEF Up, UpFails, EnsureServicesRunning, At
  <2>2. CASE php' = php
    BY <2>2 DEF ReadsItsLabel
  <2>3. CASE php' # php
    <3>1. /\ php'.made.hash = disk.compose.hash
          /\ php'.reads = PhpReads(disk.compose.mount)
          /\ php'.again = ~proc[t].alone
      BY <2>1, <2>3 DEF Upped, MadeOf
    <3>2. proc[t].alone => PhpReads(disk.compose.mount) = disk.compose.hash
      BY <2>1, LabelIsTrue DEF Undisturbed
    <3>3. proc[t].alone \in BOOLEAN
      BY DEF Typed, TypeOK, Processes
    <3>4. QED
      BY <3>1, <3>2, <3>3 DEF ReadsItsLabel
  <2>4. QED
    BY <2>2, <2>3
<1>2. CASE RestartPhp
  BY <1>2, ContainerFacts DEF RestartPhp, ReadsItsLabel, Gone, Typed, TypeOK, Running
<1>3. ASSUME php' \in {php, Gone}
      PROVE  ReadsItsLabel'
  BY <1>3 DEF ReadsItsLabel, Gone
<1>4. QED
  BY <1>1, <1>2, <1>3, Next_Actions
     DEF Command, Start, syncPhpIni, writeNginxConf, writeComposeFile, writeComposeOverrides,
         RunComposeRefused, CleanFirst, ReloadWebServer, Down, Exec, Kill, RestartWeb, Edit, vars

\* A reload is still owed after a step that leaves the web server alone.
Owing == \E u \in Terminals : Owed(u) /\ ~At(u, "done")

LEMMA StillOwing ==
  ASSUME Typed, NEW t \in Terminals, UNCHANGED web, Owing,
         \A u \in Terminals \ {t} : /\ proc'[u].at = proc[u].at /\ proc'[u].cmd = proc[u].cmd
                                    /\ proc'[u].changed = proc[u].changed,
         Owed(t) /\ ~At(t, "done") => Owed(t)' /\ ~At(t, "done")'
  PROVE  Owing'
<1>1. PICK u \in Terminals : Owed(u) /\ ~At(u, "done")
  BY DEF Owing
<1>2. Owed(u)' /\ ~At(u, "done")'
  BY <1>1 DEF Owed, At, IsUp
<1>3. QED
  BY <1>2 DEF Owing

LEMMA WebFreshStep ==
  ASSUME Typed, Steps, WebFresh, [Next]_vars
  PROVE  WebFresh'
<1> USE DEF Owing
<1>0. \A t \in Terminals : proc[t] \in Processes
  BY DEF Typed, TypeOK
<1>1. ASSUME NEW t \in Terminals, UNCHANGED web, disk'.nginx = disk.nginx, unseen => unseen',
             \A u \in Terminals \ {t} : /\ proc'[u].at = proc[u].at /\ proc'[u].cmd = proc[u].cmd
                                        /\ proc'[u].changed = proc[u].changed,
             web.up /\ Owed(t) /\ ~At(t, "done") => unseen' \/ (Owed(t)' /\ ~At(t, "done")')
      PROVE  WebFresh'
  <2>1. SUFFICES ASSUME web.up, ~unseen', web.reads # disk.nginx PROVE Owing'
    BY <1>1 DEF WebFresh
  <2>2. Owing
    BY <1>1, <2>1 DEF WebFresh
  <2>3. QED
    BY <1>1, <2>1, <2>2, StillOwing
<1>2. ASSUME NEW t \in Terminals, syncPhpIni(t)
      PROVE  WebFresh'
  <2>1. /\ UNCHANGED <<web, unseen>> /\ disk'.nginx = disk.nginx /\ ~proc[t].changed
    BY <1>2 DEF syncPhpIni, At, Steps, Typed, TypeOK
  <2>2. Others(t)
    BY <1>2, RegenerationFacts
  <2>3. QED
    BY <1>1, <2>1, <2>2 DEF Others, Owed
<1>3. ASSUME NEW t \in Terminals, writeNginxConf(t)
      PROVE  WebFresh'
  <2> DEFINE differs == proc[t].domains # disk.nginx
  <2>1. /\ UNCHANGED web /\ disk'.nginx = proc[t].domains /\ proc[t].at = "nginx"
        /\ unseen' = (unseen \/ (differs /\ web.up /\ ~IsUp(t)))
    BY <1>3 DEF writeNginxConf, At, Typed, TypeOK
  <2>2. /\ Others(t) /\ proc'[t].at = "compose" /\ proc'[t].cmd = proc[t].cmd
        /\ proc'[t].changed = (proc[t].changed \/ differs)
    BY <1>3, RegenerationFacts DEF Moves
  <2>3. CASE ~differs
    BY <1>1, <2>1, <2>2, <2>3 DEF Others, Owed, IsUp, At
  <2>4. CASE differs /\ web.up /\ IsUp(t)
    <3>1. Owed(t)' /\ ~At(t, "done")'
      BY <2>1, <2>2, <2>4 DEF Owed, IsUp, At
    <3>2. QED
      BY <3>1 DEF WebFresh
  <2>5. CASE differs /\ web.up /\ ~IsUp(t)
    BY <2>1, <2>5 DEF WebFresh
  <2>6. CASE ~web.up
    BY <2>1, <2>6 DEF WebFresh
  <2>7. QED
    BY <2>3, <2>4, <2>5, <2>6
<1>4. ASSUME NEW t \in Terminals, writeComposeFile(t) \/ writeComposeOverrides(t)
      PROVE  WebFresh'
  <2>1. UNCHANGED <<web, unseen>> /\ disk'.nginx = disk.nginx
    BY <1>4 DEF writeComposeFile, writeComposeOverrides, Typed, TypeOK
  <2>2. /\ Others(t) /\ proc'[t].at \in {"overrides", "run", "clean"} /\ proc'[t].cmd = proc[t].cmd
        /\ IsUp(t) /\ proc[t].changed => proc'[t].changed
    BY <1>4, RegenerationFacts DEF Moves
  <2>3. QED
    BY <1>1, <2>1, <2>2 DEF Others, Owed, IsUp, At
<1>5. ASSUME NEW t \in Terminals, RunComposeRefused(t)
      PROVE  WebFresh'
  <2>1. UNCHANGED <<web, disk>> /\ unseen' = (unseen \/ Owed(t))
    BY <1>5 DEF RunComposeRefused
  <2>2. QED
    BY <1>1, <1>5, <2>1, ComposeFacts DEF Others
<1>6. ASSUME NEW t \in Terminals, CleanFirst(t)
      PROVE  WebFresh'
  <2>1. /\ Others(t) /\ proc'[t].at = "run" /\ proc'[t].cmd = proc[t].cmd
        /\ proc'[t].changed = proc[t].changed
    BY <1>6, ComposeFacts DEF Moves
  <2>2. CASE web' = Gone
    BY <2>2 DEF Gone, WebFresh
  <2>3. CASE UNCHANGED <<web, php, unseen>>
    BY <1>1, <1>6, <2>1, <2>3 DEF Others, Owed, IsUp, At, CleanFirst
  <2>4. QED
    BY <1>6, <2>2, <2>3 DEF CleanFirst
<1>7. ASSUME NEW t \in Terminals, Up(t) \/ UpFails(t) \/ EnsureServicesRunning(t)
      PROVE  WebFresh'
  <2>1. disk' = disk /\ web' \in {web, Upped(t, "web", web)} /\ Others(t)
    BY <1>7, ComposeFacts DEF Up, UpFails, EnsureServicesRunning
  <2>2. CASE web' # web
    <3>1. web'.reads = disk.nginx
      BY <2>1, <2>2 DEF Upped
    <3>2. QED
      BY <2>1, <3>1 DEF WebFresh
  <2>3. CASE web' = web /\ Up(t)
    <3>1. /\ proc'[t].at = IF proc[t].changed THEN "reload" ELSE "done"
          /\ proc'[t].cmd = proc[t].cmd /\ proc'[t].changed = proc[t].changed
      BY <2>3, ComposeFacts DEF Moves
    <3>2. unseen => unseen'
      BY <2>3 DEF Up
    <3>3. QED
      BY <1>1, <2>1, <2>3, <3>1, <3>2 DEF Others, Owed, IsUp, At
  <2>4. CASE web' = web /\ UpFails(t)
    <3>1. unseen' = (unseen \/ Owed(t))
      BY <2>4 DEF UpFails
    <3>2. QED
      BY <1>1, <2>1, <2>4, <3>1 DEF Others
  <2>5. CASE web' = web /\ EnsureServicesRunning(t)
    <3>1. ~Owed(t) /\ (unseen => unseen')
      BY <2>5 DEF EnsureServicesRunning, Owed, IsUp
    <3>2. QED
      BY <1>1, <2>1, <2>5, <3>1 DEF Others
  <2>6. QED
    BY <1>7, <2>2, <2>3, <2>4, <2>5
<1>8. ASSUME NEW t \in Terminals, ReloadWebServer(t)
      PROVE  WebFresh'
  <2>1. CASE web' = IF web.up THEN [web EXCEPT !.reads = disk.nginx] ELSE web
    <3>1. web.up => web'.reads = disk.nginx
      BY <2>1, ContainerFacts DEF Typed, TypeOK, Running
    <3>2. disk' = disk /\ (web'.up => web.up)
      BY <1>8, <2>1 DEF ReloadWebServer
    <3>3. QED
      BY <3>1, <3>2 DEF WebFresh
  <2>2. CASE unseen' = (unseen \/ web.up) /\ UNCHANGED web
    BY <2>2 DEF WebFresh
  <2>3. QED
    BY <1>8, <2>1, <2>2 DEF ReloadWebServer
<1>9. ASSUME NEW t \in Terminals, Down(t)
      PROVE  WebFresh'
  <2>1. /\ disk' = disk /\ web' \in {web, Gone} /\ ~Owed(t) /\ Others(t)
        /\ unseen' = (unseen /\ web'.up)
    BY <1>9, ComposeFacts DEF Down, Owed, IsUp
  <2>2. CASE web' = Gone
    BY <2>2 DEF Gone, WebFresh
  <2>3. CASE web' = web /\ web.up
    BY <1>1, <2>1, <2>3 DEF Others
  <2>4. CASE web' = web /\ ~web.up
    BY <2>4 DEF WebFresh
  <2>5. QED
    BY <2>1, <2>2, <2>3, <2>4
<1>10. ASSUME NEW t \in Terminals, Start(t) \/ Exec(t) \/ Kill(t)
      PROVE  WebFresh'
  <2>1. /\ \A u \in Terminals \ {t} : proc'[u] = proc[u]
        /\ UNCHANGED <<disk, web>> /\ (unseen => unseen')
    <3>1. unseen => unseen'
      BY <1>10 DEF Start, Exec, Kill
    <3>2. QED
      BY <1>10, <3>1, EndFacts
  <2>2. Owed(t) /\ ~At(t, "done") => unseen'
    BY <1>10, EndFacts DEF Owed, At, Steps, Start, Exec, Kill, IsUp
  <2>3. QED
    BY <1>1, <2>1, <2>2
<1>11. CASE RestartWeb
  <2>1. web'.reads = disk.nginx /\ disk' = disk
    BY <1>11, ContainerFacts DEF RestartWeb, Typed, TypeOK, Running
  <2>2. QED
    BY <2>1 DEF WebFresh
<1>12. CASE RestartPhp \/ Edit
  <2>1. UNCHANGED <<web, disk, unseen>>
    BY <1>12 DEF RestartPhp, Edit
  <2>2. Owing => Owing'
    BY <1>12, <2>1, EnvironmentFacts DEF Owed, IsUp, At
  <2>3. QED
    BY <2>1, <2>2 DEF WebFresh
<1>13. CASE UNCHANGED vars
  BY <1>13 DEF vars, WebFresh, Owed, IsUp, At
<1>14. QED
  BY <1>2, <1>3, <1>4, <1>5, <1>6, <1>7, <1>8, <1>9, <1>10, <1>11, <1>12, <1>13, Next_Actions
     DEF Command

\* What each write of an undisturbed command adds to what it knows.
LEMMA UndisturbedStep ==
  ASSUME Typed, Steps, Undisturbed, [Next]_vars
  PROVE  Undisturbed'
<1> USE DEF Loading, Synced, Served, Composed, Resolved
<1>0. \A t \in Terminals : proc[t] \in Processes
  BY DEF Typed, TypeOK
<1>1. ASSUME NEW t \in Terminals, Others(t), proc'[t].alone => Knows(t)'
      PROVE  Undisturbed'
  BY <1>1 DEF Others, Undisturbed
<1>2. ASSUME NEW t \in Terminals, syncPhpIni(t)
      PROVE  Undisturbed'
  <2>1. /\ Others(t) /\ Moves(t, "nginx")
        /\ proc'[t].mount = phpIniMountSource(conf.ini) /\ proc'[t].hash = IniContent(conf.ini)
    BY <1>2, RegenerationFacts
  <2>2. /\ proc[t].at = "ini" /\ conf' = conf /\ project' = project
        /\ conf.ini.form = "map" => disk'.ini = conf.ini.value
    BY <1>2 DEF syncPhpIni, At, Typed, TypeOK
  <2>3. /\ phpIniMountSource(conf.ini)' = phpIniMountSource(conf.ini)
        /\ IniContent(conf.ini)' = IniContent(conf.ini)
    BY <2>2 DEF IniContent, phpIniMountSource
  <2>4. proc[t].alone => proc[t].domains = conf.domains
    BY <2>2 DEF Undisturbed, Knows
  <2>5. proc'[t].alone => Knows(t)'
    BY <2>1, <2>2, <2>3, <2>4 DEF Knows, Moves
  <2>6. QED
    BY <1>1, <2>1, <2>5
<1>3. ASSUME NEW t \in Terminals, writeNginxConf(t)
      PROVE  Undisturbed'
  <2>1. /\ Others(t) /\ Moves(t, "compose")
        /\ proc'[t].mount = proc[t].mount /\ proc'[t].hash = proc[t].hash
    BY <1>3, RegenerationFacts
  <2>2. /\ proc[t].at = "nginx" /\ conf' = conf /\ project' = project
        /\ disk'.nginx = proc[t].domains /\ disk'.ini = disk.ini
    BY <1>3 DEF writeNginxConf, At, Typed, TypeOK
  <2>3. /\ phpIniMountSource(conf.ini)' = phpIniMountSource(conf.ini)
        /\ IniContent(conf.ini)' = IniContent(conf.ini)
    BY <2>2 DEF IniContent, phpIniMountSource
  <2>4. proc[t].alone =>
          /\ proc[t].domains = conf.domains
          /\ proc[t].mount = phpIniMountSource(conf.ini) /\ proc[t].hash = IniContent(conf.ini)
          /\ conf.ini.form = "map" => disk.ini = conf.ini.value
    BY <2>2 DEF Undisturbed, Knows
  <2>5. proc'[t].alone => Knows(t)'
    BY <2>1, <2>2, <2>3, <2>4 DEF Knows, Moves
  <2>6. QED
    BY <1>1, <2>1, <2>5
<1>4. ASSUME NEW t \in Terminals, writeComposeFile(t)
      PROVE  Undisturbed'
  <2>1. Others(t) /\ Moves(t, "overrides")
    BY <1>4, RegenerationFacts
  <2>2. /\ proc[t].at = "compose" /\ conf' = conf /\ project' = project
        /\ disk'.nginx = disk.nginx /\ disk'.ini = disk.ini /\ disk'.compose = ComposeFile(t)
    BY <1>4 DEF writeComposeFile, At, Typed, TypeOK
  <2>3. Mounted' = Mounted
    BY <2>2 DEF Mounted, IniContent, phpIniMountSource
  <2>4. proc[t].alone =>
          /\ ComposeFile(t) = Mounted /\ disk.nginx = conf.domains
          /\ conf.ini.form = "map" => disk.ini = conf.ini.value
    BY <2>2 DEF Undisturbed, Knows, Mounted, ComposeFile
  <2>5. proc'[t].alone => Knows(t)'
    BY <2>1, <2>2, <2>3, <2>4 DEF Knows, Moves
  <2>6. QED
    BY <1>1, <2>1, <2>5
<1>5. ASSUME NEW t \in Terminals, writeComposeOverrides(t)
      PROVE  Undisturbed'
  <2>1. /\ Others(t) /\ proc'[t].at \in {"run", "clean"}
        /\ proc'[t].alone = proc[t].alone /\ proc'[t].broken = (project.override = Broken)
    BY <1>5, RegenerationFacts
  <2>2. /\ proc[t].at = "overrides" /\ conf' = conf /\ project' = project
        /\ disk'.nginx = disk.nginx /\ disk'.ini = disk.ini /\ disk'.compose = disk.compose
        /\ disk'.copy = ResolvedCopy
    BY <1>5 DEF writeComposeOverrides, At, Typed, TypeOK
  <2>3. Mounted' = Mounted /\ ResolvedCopy' = ResolvedCopy
    BY <2>2 DEF Mounted, IniContent, phpIniMountSource, ResolvedCopy
  <2>4. proc[t].alone =>
          /\ disk.compose = Mounted /\ disk.nginx = conf.domains
          /\ conf.ini.form = "map" => disk.ini = conf.ini.value
    BY <2>2 DEF Undisturbed, Knows
  <2>5. proc'[t].alone => Knows(t)'
    BY <2>1, <2>2, <2>3, <2>4 DEF Knows
  <2>6. QED
    BY <1>1, <2>1, <2>5
<1>6. ASSUME UNCHANGED <<conf, project, disk>>
      PROVE  /\ Mounted' = Mounted /\ ResolvedCopy' = ResolvedCopy
             /\ MadeOf("web")' = MadeOf("web") /\ MadeOf("php")' = MadeOf("php")
  BY <1>6 DEF Mounted, IniContent, phpIniMountSource, ResolvedCopy, MadeOf
\* Behind the regeneration only the containers are left to say something about.
<1>7. ASSUME NEW t \in Terminals, NEW point \in {"run", "reload", "done"}, UNCHANGED <<conf, project, disk>>,
             proc[t].at \in {"clean", "run", "reload"}, Others(t), Moves(t, point),
             proc[t].alone /\ Knows(t) /\ point \in {"reload", "done"} /\ IsUp(t) =>
               /\ web'.up /\ web'.made = MadeOf("web")
               /\ php'.up /\ php'.made = MadeOf("php")
      PROVE  Undisturbed'
  <2>1. proc[t].alone => Knows(t)
    BY DEF Undisturbed
  <2>2. proc'[t].alone => Knows(t)'
    BY <1>6, <1>7, <2>1 DEF Knows, Moves, IsUp
  <2>3. QED
    BY <1>1, <1>7, <2>2
<1>8. ASSUME NEW t \in Terminals, Ends(t), Others(t)
      PROVE  Undisturbed'
  BY <1>1, <1>8 DEF Ends, Knows
<1>9. ASSUME NEW t \in Terminals, CleanFirst(t)
      PROVE  Undisturbed'
  BY <1>7, <1>9, ComposeFacts DEF CleanFirst, At
<1>10. ASSUME NEW t \in Terminals, Up(t)
       PROVE  Undisturbed'
  <2> DEFINE point == IF proc[t].changed THEN "reload" ELSE "done"
  <2>1. Moves(t, point) /\ Others(t) /\ point \in {"run", "reload", "done"}
    BY <1>10, ComposeFacts
  <2>2. /\ web' = Upped(t, "web", web) /\ php' = Upped(t, "php", php)
        /\ proc[t].at = "run" /\ UNCHANGED <<conf, project, disk>>
    BY <1>10 DEF Up, At
  <2>3. /\ web'.up /\ web'.made = MadeOf("web")
        /\ php'.up /\ php'.made = MadeOf("php")
    BY <2>2 DEF Upped
  <2> HIDE DEF point
  <2>4. QED
    BY <1>7, <2>1, <2>2, <2>3
<1>11. ASSUME NEW t \in Terminals, ReloadWebServer(t)
       PROVE  Undisturbed'
  <2>1. Moves(t, "done") /\ Others(t)
    BY <1>11, ComposeFacts
  <2>2. proc[t].at = "reload" /\ UNCHANGED <<conf, project, disk, php>>
    BY <1>11 DEF ReloadWebServer, At
  <2>3. web.up => web'.up /\ web'.made = web.made
    BY <1>11, ContainerFacts DEF ReloadWebServer, Typed, TypeOK, Running
  <2>4. QED
    BY <1>7, <2>1, <2>2, <2>3 DEF Knows
<1>12. ASSUME NEW t \in Terminals, Down(t)
       PROVE  Undisturbed'
  <2>1. (Moves(t, "done") \/ Ends(t)) /\ Others(t)
    BY <1>12, ComposeFacts
  <2>2. proc[t].at = "run" /\ ~IsUp(t) /\ UNCHANGED <<conf, project, disk>>
    BY <1>12 DEF Down, At, IsUp
  <2>3. QED
    BY <1>7, <1>8, <2>1, <2>2
<1>13. ASSUME NEW t \in Terminals,
              RunComposeRefused(t) \/ UpFails(t) \/ EnsureServicesRunning(t)
       PROVE  Undisturbed'
  BY <1>8, <1>13, ComposeFacts
<1>14. ASSUME NEW t \in Terminals, Start(t) \/ Exec(t) \/ Kill(t)
       PROVE  Undisturbed'
  <2>1. /\ \A u \in Terminals \ {t} : proc'[u] = proc[u]
        /\ UNCHANGED <<conf, project, disk, web, php>>
    BY <1>14, EndFacts
  <2>2. ASSUME NEW u \in Terminals \ {t}, proc'[u].alone
        PROVE  Knows(u)'
    <3>1. Knows(u)
      BY <2>1, <2>2 DEF Undisturbed
    <3>2. QED
      BY <1>6, <2>1, <3>1 DEF Knows, Mounted, IsUp
  <2>3. Knows(t)'
    BY <1>14, EndFacts DEF Ends, Knows
  <2>4. QED
    BY <2>2, <2>3 DEF Undisturbed
<1>15. CASE RestartWeb \/ RestartPhp \/ Edit
  BY <1>15, EnvironmentFacts DEF Undisturbed
<1>16. CASE UNCHANGED vars
  <2>1. UNCHANGED <<conf, project, disk, web, php, proc>>
    BY <1>16 DEF vars
  <2>2. \A u \in Terminals : Knows(u) => Knows(u)'
    BY <1>6, <2>1 DEF Knows, Mounted, IsUp
  <2>3. QED
    BY <2>1, <2>2 DEF Undisturbed
<1>17. QED
  BY <1>2, <1>3, <1>4, <1>5, <1>9, <1>10, <1>11, <1>12, <1>13, <1>14, <1>15, <1>16, Next_Actions
     DEF Command

-----------------------------------------------------------------------------
(* The theorems.                                                            *)

LEMMA Inductive ==
  /\ Init => IInv
  /\ IInv /\ [Next]_vars => IInv'
<1>1. ASSUME Init PROVE IInv
  <2>1. /\ \A t \in Terminals : proc[t] = Idle
        /\ web = Gone /\ php = Gone /\ disk.compose = NoFile
    BY <1>1 DEF Init
  <2>2. Idle.at = "idle" /\ ~Idle.changed
    BY DEF Idle, Loaded
  <2>3. ~Gone.up /\ Gone.made.mount = None /\ NoFile.mount = None
    BY DEF Gone, NotMade, NoFile
  <2>4. Steps /\ IniThere /\ ReadsItsLabel /\ WebFresh
    BY <2>1, <2>2, <2>3 DEF Steps, IniThere, ReadsItsLabel, WebFresh, None
  <2>5. Undisturbed
    BY <2>1, <2>2 DEF Undisturbed, Knows, Loading, Synced, Served, Composed, Resolved
  <2>6. QED
    BY <1>1, <2>4, <2>5, TypedInit DEF IInv
<1>2. ASSUME IInv, [Next]_vars PROVE IInv'
  BY <1>2, TypedStep, StepsStep, IniThereStep, ReadsItsLabelStep, WebFreshStep, UndisturbedStep
     DEF IInv
<1>3. QED
  BY <1>1, <1>2

(* What an undisturbed command gives to compose is what the override's      *)
(* source says: writeComposeOverrides leaves no copy of a source that is    *)
(* gone or cannot be used, and the runners refuse the latter.               *)
THEOREM NoStaleOverrideHolds == Spec => []NoStaleOverride
<1>1. Spec => []IInv
  BY Inductive, PTL DEF Spec
<1>2. IInv => NoStaleOverride
  BY DEF IInv, Undisturbed, Knows, Steps, NoStaleOverride, Resolved, Composed, Served, Synced,
         ResolvedCopy
<1>3. QED
  BY <1>1, <1>2, PTL

(* Whatever the configuration has become since it was made, a PHP container *)
(* can be restarted in place: the bind source syncPhpIni generates is       *)
(* emptied, never removed.                                                  *)
THEOREM RestartsInPlaceHolds == Spec => []RestartsInPlace
<1>1. Spec => []IInv
  BY Inductive, PTL DEF Spec
<1>2. IInv => RestartsInPlace
  <2>1. SUFFICES ASSUME IInv, php.up PROVE Behind(php.made.mount) # Absent \/ php.made.mount = "project"
    BY DEF RestartsInPlace
  <2>2. php.made.mount \in {None, "generated", "project"}
    BY <2>1, ContainerFacts DEF IInv, Typed, TypeOK, Made
  <2>3. QED
    BY <2>1, <2>2 DEF IInv, IniThere, Behind, None, Absent
<1>3. QED
  BY <1>1, <1>2, PTL

(* An `up` that nobody disturbed and that succeeded has brought the web and *)
(* the PHP container to what the project says: the override, the ini the    *)
(* label names, and, unless a reload is owed or lost, the domains.          *)
THEOREM UpBringsTheProjectHolds == Spec => []UpBringsTheProject
<1>1. Spec => []IInv
  BY Inductive, PTL DEF Spec
<1>2. IInv => UpBringsTheProject
  <2>1. SUFFICES ASSUME IInv, NEW t \in Terminals, At(t, "done"), IsUp(t), proc[t].alone
                 PROVE  /\ web.up /\ php.up
                        /\ {web.made.copy, php.made.copy} = {ResolvedCopy}
                        /\ php.again \/ php.reads = IniContent(conf.ini)
                        /\ \/ unseen \/ web.reads = conf.domains
                           \/ \E u \in Terminals : Owed(u) /\ ~At(u, "done")
    BY DEF UpBringsTheProject
  <2>2. /\ web.up /\ web.made = MadeOf("web") /\ php.up /\ php.made = MadeOf("php")
        /\ disk.copy = ResolvedCopy /\ disk.nginx = conf.domains /\ disk.compose = Mounted
    BY <2>1 DEF IInv, Undisturbed, Knows, At, Resolved, Composed, Served, Synced
  <2>3. {web.made.copy, php.made.copy} = {ResolvedCopy} /\ php.made.hash = IniContent(conf.ini)
    BY <2>2 DEF MadeOf, Mounted
  <2>4. QED
    BY <2>1, <2>2, <2>3 DEF IInv, ReadsItsLabel, WebFresh
<1>3. QED
  BY <1>1, <1>2, PTL
=============================================================================
