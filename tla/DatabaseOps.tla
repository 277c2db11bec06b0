----------------------------- MODULE DatabaseOps -----------------------------
(* The development database under `db backup`, `db restore` and `init`: the *)
(* dump file on the host, the database, the services that hold a kernel of  *)
(* the application open, and the sources init scaffolds. Every compose      *)
(* command may fail, a command may be killed between two of its steps, and  *)
(* the developer uses the application, pulls code and stops services.       *)
EXTENDS Naturals, FiniteSets

CONSTANTS
  Terminals,     \* shells in which orobox commands run
  Kernels,       \* oroKernelServices: web, php-fpm-app, ws, consumer, cron
  Datas,         \* contents the application can give a database
  BindWholeRepo, \* the install type: a project's checkout, or a bundle's volume
  MaxCommands,   \* bound: commands started
  MaxEvents      \* bound: events of the environment

(* A database, or the one a dump file holds.                                *)
Database(data, whole, level, urls) == [data |-> data, whole |-> whole, level |-> level, urls |-> urls]
Fresh == Database("nothing", TRUE, 0, "none")
Absent == Database("absent", FALSE, 0, "none")
Torn == Database("torn", FALSE, 0, "none")     \* the beginning of a dump

Services == Kernels \cup {"db", "application"}

ASSUME ConstantsAssumption ==
  /\ {"db", "application"} \cap Kernels = {}
  /\ {"nothing", "absent", "torn"} \cap Datas = {}
  /\ BindWholeRepo \in BOOLEAN /\ MaxCommands \in Nat /\ MaxEvents \in Nat

VARIABLES
  db,       \* the database: content, whether it is all there, level of its schema, its urls
  dump,     \* the dump file
  src,      \* OroCommerce's sources: absent, partial, without vendor, ready
  code,     \* the schema level of the code
  running,  \* the services compose reports as running
  proc,     \* per terminal the command it runs
  count,    \* commands and events so far
  killed    \* history: a command was killed

vars == <<db, dump, src, code, running, proc, count, killed>>

(* A command: the services it found, those it resumes, its verdict, and     *)
(* what the properties excuse: a failure it only warned about (excused),    *)
(* whatever somebody else did meanwhile (alone).                            *)
Idle == [at |-> "idle", cmd |-> "none", found |-> {}, resume |-> {}, ok |-> FALSE,
         excused |-> FALSE, alone |-> TRUE, existing |-> FALSE, asked |-> FALSE]

Init ==
  /\ code = 1
  /\ db \in {Absent} \cup {Database(d, TRUE, 1, "project") : d \in Datas}
  /\ dump \in {Absent} \cup {Database(d, TRUE, 0, "foreign") : d \in Datas}
  /\ src \in {"none", "novendor"}
  /\ running \in {{}, Services} \cup {Services \ {k} : k \in Kernels}
  /\ proc = [t \in Terminals |-> Idle]
  /\ count = [commands |-> 0, events |-> 0] /\ killed = FALSE

At(t, point) == proc[t].at = point

(* t goes on as p; whatever it changed is somebody else's doing for others. *)
Goes(t, p) == proc' = [u \in Terminals |-> IF u = t THEN p ELSE [proc[u] EXCEPT !.alone = FALSE]]
To(t, point) == [proc[t] EXCEPT !.at = point]
FailsM(t) == [proc[t] EXCEPT !.at = "done", !.ok = FALSE]   \* mutant: nothing is deferred
Fails(t) == [proc[t] EXCEPT !.at = IF @ \in {"clear", "load", "urls", "update"} THEN "resume" ELSE "done",
                            !.ok = FALSE]

Start(t) ==
  /\ proc[t].at \in {"idle", "done"} /\ count.commands < MaxCommands
  /\ count' = [count EXCEPT !.commands = @ + 1]
  /\ \E first \in {<<"backup", "create">>, <<"init", "down">>}
                    \cup (IF dump = Absent THEN {} ELSE {<<"restore", "ensure">>}) :
       Goes(t, [Idle EXCEPT !.at = first[2], !.cmd = first[1], !.found = running])
  /\ UNCHANGED <<db, dump, src, code, running, killed>>

-----------------------------------------------------------------------------
(* backup: os.Create truncates the file before pg_dump starts; a pg_dump    *)
(* that fails takes the file away again. (Two backups at once are given     *)
(* different files.)                                                        *)

CreateFile(t) ==
  /\ At(t, "create") /\ ~\E u \in Terminals : At(u, "dump")
  /\ dump' = Torn /\ Goes(t, To(t, "dump"))
  /\ UNCHANGED <<db, src, code, running, count, killed>>

RemoveFileM == dump   \* mutant: the file stays
RemoveFile == Absent

backupDatabase(t) ==
  /\ At(t, "dump")
  /\ \/ /\ "db" \in running /\ db # Absent
        /\ dump' = IF dump = Absent THEN Absent ELSE db
        /\ Goes(t, [To(t, "done") EXCEPT !.ok = TRUE])
     \/ dump' = RemoveFile /\ Goes(t, Fails(t))
  /\ UNCHANGED <<db, src, code, running, count, killed>>

-----------------------------------------------------------------------------
(* restore.                                                                 *)

(* `up -d` of a service starts what it depends on; application needs the    *)
(* kernels and they need the database.                                      *)
Started(names) ==
  running \cup names \cup (IF "application" \in names THEN Services ELSE {})
EnsureStarts == Started({"db", "application"} \ running)

EnsureServicesRunning(t) ==
  /\ At(t, "ensure")
  /\ \/ running' = EnsureStarts /\ Goes(t, To(t, "quiesce"))
     \/ running' \in {running, EnsureStarts} /\ Goes(t, Fails(t))   \* or Postgres never answers
  /\ UNCHANGED <<db, dump, src, code, count, killed>>

RunningServices == Kernels \cap running

(* The kernels that run are stopped, and only those are started again. A    *)
(* stop that fails, or a `ps` that fails, resumes nothing and goes on.      *)
quiesceOroKernels(t) ==
  /\ At(t, "quiesce")
  /\ \/ /\ running' = running \ RunningServices
        /\ Goes(t, [To(t, "clear") EXCEPT !.resume = RunningServices])
     \/ \E stopped \in SUBSET RunningServices :
          /\ running' = running \ stopped
          /\ Goes(t, [To(t, "clear") EXCEPT !.excused = TRUE])
  /\ UNCHANGED <<db, dump, src, code, count, killed>>

(* Drop, create, extension: each a psql of its own.                         *)
ClearedM == db   \* mutant: the database is not dropped
Cleared == Fresh

ClearDatabase(t) ==
  /\ At(t, "clear")
  /\ \/ "db" \in running /\ db' = Cleared /\ Goes(t, To(t, "load"))
     \/ db' \in {db, Absent, Cleared} /\ Goes(t, Fails(t))
  /\ UNCHANGED <<dump, src, code, running, count, killed>>

(* psql goes on after a failing statement and exits 0: a torn dump, or one  *)
(* whose statements fail, loads what it can. Only the connection's loss or  *)
(* a missing file is an error.                                              *)
Part(d) == IF d = Torn THEN [Fresh EXCEPT !.whole = FALSE] ELSE [d EXCEPT !.whole = FALSE]

LoadDump(t) ==
  /\ At(t, "load")
  /\ \/ /\ "db" \in running /\ dump \notin {Absent, Torn} /\ db # Absent
        /\ db' = (IF db = Fresh THEN dump ELSE db)   \* "already exists"
        /\ Goes(t, To(t, "urls"))
     \/ /\ "db" \in running /\ dump # Absent /\ db # Absent
        /\ db' = Part(dump) /\ Goes(t, [To(t, "urls") EXCEPT !.excused = TRUE])
     \/ db' \in {db} \cup (IF dump = Absent \/ db = Absent THEN {} ELSE {Part(dump)}) /\ Goes(t, Fails(t))
  /\ UNCHANGED <<dump, src, code, running, count, killed>>

(* The URL update's result is ignored, the cache's clearing only warns.     *)
UpdateUrls(t) ==
  /\ At(t, "urls")
  /\ \/ db # Absent /\ db' = [db EXCEPT !.urls = "project"] /\ Goes(t, To(t, "update"))
     \/ UNCHANGED db /\ Goes(t, [To(t, "update") EXCEPT !.excused = TRUE])
  /\ UNCHANGED <<dump, src, code, running, count, killed>>

PlatformUpdate(t) ==
  /\ At(t, "update")
  /\ \/ /\ "application" \in running /\ db # Absent
        /\ db' = [db EXCEPT !.level = code] /\ Goes(t, [To(t, "resume") EXCEPT !.ok = TRUE])
     \/ /\ db' \in {db} \cup (IF db = Absent THEN {} ELSE {[db EXCEPT !.whole = FALSE]})
        /\ Goes(t, Fails(t))
  /\ UNCHANGED <<dump, src, code, running, count, killed>>

(* Deferred: on success and on every failure after the pause.               *)
Resume(t) ==
  /\ At(t, "resume")
  /\ \/ running' = Started(proc[t].resume) /\ Goes(t, To(t, "done"))
     \/ \E some \in SUBSET proc[t].resume :
          running' = Started(some) /\ Goes(t, [To(t, "done") EXCEPT !.excused = TRUE])
  /\ UNCHANGED <<db, dump, src, code, count, killed>>

-----------------------------------------------------------------------------
(* init.                                                                    *)

(* The containers go down (a warning when they do not), the database's      *)
(* service comes up.                                                        *)
StartServices(t) ==
  /\ At(t, "down")
  /\ \E left \in {{}, running} :
       \/ running' = left \cup {"db"} /\ Goes(t, To(t, "check"))
       \/ running' = left /\ Goes(t, Fails(t))
  /\ UNCHANGED <<db, dump, src, code, count, killed>>

(* Any error of the one-off container reads as "no composer.json". With     *)
(* sources in a project's checkout the install is asked for, and refused    *)
(* when nobody can answer; --force-install stands for a yes. A refusal is a *)
(* success without the install.                                             *)
Asks == BindWholeRepo

CheckSources(t) ==
  /\ At(t, "check")
  /\ \/ /\ src # "none"
        /\ \E yes \in BOOLEAN :
             Goes(t, [To(t, "vendor") EXCEPT !.existing = TRUE, !.asked = yes, !.ok = Asks /\ ~yes])
     \/ Goes(t, [To(t, "clone") EXCEPT !.existing = src # "none"])
  /\ UNCHANGED <<db, dump, src, code, running, count, killed>>

(* Clone to /tmp, copy over what is there, composer install; a copy that    *)
(* fails leaves a composer.json with it.                                    *)
CloneSources(t) ==
  /\ At(t, "clone")
  /\ \/ src' = "ready" /\ Goes(t, To(t, "install"))
     \/ src' \in {src, "partial", "novendor"} /\ Goes(t, Fails(t))
  /\ UNCHANGED <<db, dump, code, running, count, killed>>

InstallDependencies(t) ==
  /\ At(t, "vendor")
  /\ \/ /\ src' = IF src = "novendor" THEN "ready" ELSE src
        /\ Goes(t, To(t, IF proc[t].ok THEN "done" ELSE "install"))
     \/ src = "novendor" /\ UNCHANGED src /\ Goes(t, Fails(t))
  /\ UNCHANGED <<db, dump, code, running, count, killed>>

(* oro:install drops the tables and starts anew.                            *)
OroInstall(t) ==
  /\ At(t, "install")
  /\ \/ /\ "db" \in running /\ src # "none"
        /\ \E d \in Datas : db' = Database(d, TRUE, code, "project")
        /\ Goes(t, [To(t, "done") EXCEPT !.ok = TRUE])
     \/ db' \in {db, [Fresh EXCEPT !.whole = FALSE]} /\ Goes(t, Fails(t))
  /\ UNCHANGED <<dump, src, code, running, count, killed>>

-----------------------------------------------------------------------------
(* The environment.                                                         *)

Kill(t) ==
  /\ proc[t].at \notin {"idle", "done"}
  /\ proc' = [proc EXCEPT ![t] = Idle] /\ killed' = TRUE
  /\ UNCHANGED <<db, dump, src, code, running, count>>

(* The application writes, code with a migration is pulled, a service is    *)
(* stopped or started by hand.                                              *)
Event ==
  /\ count.events < MaxEvents /\ count' = [count EXCEPT !.events = @ + 1]
  /\ \/ /\ "application" \in running /\ db # Absent /\ db # Fresh
        /\ \E d \in Datas : db' = [db EXCEPT !.data = d]
        /\ UNCHANGED <<code, running>>
     \/ code' = code + 1 /\ UNCHANGED <<db, running>>
     \/ \E s \in Services :
          /\ running' = IF s \in running THEN running \ {s} ELSE Started({s})
          /\ UNCHANGED <<db, code>>
  /\ proc' = [t \in Terminals |-> [proc[t] EXCEPT !.alone = FALSE]]
  /\ UNCHANGED <<dump, src, killed>>

Next ==
  \/ \E t \in Terminals :
       \/ Start(t) \/ CreateFile(t) \/ backupDatabase(t)
       \/ EnsureServicesRunning(t) \/ quiesceOroKernels(t) \/ ClearDatabase(t) \/ LoadDump(t)
       \/ UpdateUrls(t) \/ PlatformUpdate(t) \/ Resume(t)
       \/ StartServices(t) \/ CheckSources(t) \/ CloneSources(t) \/ InstallDependencies(t)
       \/ OroInstall(t) \/ Kill(t)
  \/ Event

Spec == Init /\ [][Next]_vars

-----------------------------------------------------------------------------
Succeeded(t, c) == At(t, "done") /\ proc[t].cmd = c /\ proc[t].ok /\ proc[t].alone
Undisturbed(t) == proc[t].alone /\ ~proc[t].excused

(* A restore that reports success and met no failure it ignores leaves the  *)
(* dump's content, all of it, under the schema of the code and the urls of  *)
(* the project.                                                             *)
RestoreBringsTheDump == \A t \in Terminals :
  Succeeded(t, "restore") /\ Undisturbed(t) =>
    db = [dump EXCEPT !.level = code, !.urls = "project"]

(* A restore, successful or not, hands the stack back with the kernels it   *)
(* found running. (One that has to start the application first starts all   *)
(* of them with it.)                                                        *)
StackAsFound == \A t \in Terminals :
  At(t, "done") /\ proc[t].cmd = "restore" /\ Undisturbed(t) /\ "application" \in proc[t].found =>
    running \cap Kernels = proc[t].found \cap Kernels

(* A file that is only the beginning of a dump is one being written, or the *)
(* leftover of a killed backup: a failed backup leaves none under the name. *)
TornMeansKilled ==
  dump = Torn => killed \/ \E t \in Terminals : At(t, "dump")

Resets(t) == At(t, "install") /\ proc[t].existing /\ db' # db /\ BindWholeRepo
ByItself(t) == proc[t].at # "idle" /\ proc'[t] # proc[t] /\ proc'[t].at # proc[t].at
(* "An existing project checkout (composer.json present) is preserved       *)
(* unless the user opts in, because oro:install resets the database"        *)
(* (cmd/init.go). A known deviation: a failing check reads as "no sources". *)
ExistingProjectPreserved == [][\A t \in Terminals :
  Resets(t) /\ ByItself(t) => proc[t].asked]_vars
=============================================================================
