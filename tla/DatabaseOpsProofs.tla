------------------------- MODULE DatabaseOpsProofs -------------------------
(***************************************************************************)
(* Proofs about DatabaseOps: type correctness, what a torn dump file       *)
(* means, the stack a restore hands back and the database it brings, for   *)
(* any number of terminals, kernels and contents.                          *)
(***************************************************************************)
EXTENDS DatabaseOps, TLAPS

Databases == [data : Datas \cup {"nothing", "absent"}, whole : BOOLEAN, level : Nat,
              urls : {"none", "project", "foreign"}]

(* The points of a command, in the order it passes them.                    *)
BackupPoints == {"create", "dump", "done"}
RestorePoints == {"ensure", "quiesce", "clear", "load", "urls", "update", "resume", "done"}
InitPoints == {"down", "check", "vendor", "clone", "install", "done"}
PointsOf(cmd) ==
  CASE cmd = "backup" -> BackupPoints
    [] cmd = "restore" -> RestorePoints
    [] cmd = "init" -> InitPoints
    [] OTHER -> {"idle"}

Processes == [at : {"idle"} \cup BackupPoints \cup RestorePoints \cup InitPoints,
              cmd : {"none", "backup", "restore", "init"},
              found : SUBSET Services, resume : SUBSET Kernels, ok : BOOLEAN,
              excused : BOOLEAN, alone : BOOLEAN, existing : BOOLEAN, asked : BOOLEAN]

TypeOK ==
  /\ db \in Databases /\ dump \in Databases \cup {Torn}
  /\ src \in {"none", "partial", "novendor", "ready"} /\ code \in Nat
  /\ running \in SUBSET Services
  /\ proc \in [Terminals -> Processes]
  /\ count \in [commands : 0..MaxCommands, events : 0..MaxEvents] /\ killed \in BOOLEAN

\* A command is only ever at its own points.
OnItsWay == \A t \in Terminals : proc[t].at \in PointsOf(proc[t].cmd)
Typed == TypeOK /\ OnItsWay

-----------------------------------------------------------------------------
(* The strengthening: what an undisturbed restore knows at each point.      *)

\* The kernels, from the point of view of a restore that found the application.
Kernel(t) == proc[t].found \cap Kernels
Handling(t) ==
  "application" \in proc[t].found =>
    /\ proc[t].at \in {"ensure", "quiesce", "done"} => running \cap Kernels = Kernel(t)
    /\ proc[t].at \in {"ensure", "quiesce"} => "application" \in running
    /\ proc[t].at \in {"clear", "load", "urls", "update", "resume"} =>
         running \cap Kernels = {} /\ proc[t].resume = Kernel(t)

\* The database, as the steps of the restore that succeeded have made it.
Loading(t) ==
  /\ proc[t].at = "load" => db = Fresh
  /\ proc[t].at = "urls" => db = dump
  /\ proc[t].at = "update" => db = [dump EXCEPT !.urls = "project"]
  /\ proc[t].at \in {"resume", "done"} /\ proc[t].ok =>
       db = [dump EXCEPT !.level = code, !.urls = "project"]

Restoring == \A t \in Terminals :
  proc[t].cmd = "restore" /\ Undisturbed(t) => Handling(t) /\ Loading(t)

-----------------------------------------------------------------------------
(* What a step does to its command and to the others.                       *)

Others(t) == \A u \in Terminals \ {t} :
  /\ proc'[u].at = proc[u].at /\ proc'[u].cmd = proc[u].cmd
  /\ proc'[u] \in Processes /\ proc'[u].alone = FALSE

LEMMA GoesIs ==
  ASSUME TypeOK, NEW t \in Terminals, NEW p \in Processes, Goes(t, p)
  PROVE  proc'[t] = p /\ Others(t) /\ proc' \in [Terminals -> Processes]
<1>1. ASSUME NEW q \in Processes
      PROVE  /\ [q EXCEPT !.alone = FALSE] \in Processes
             /\ [q EXCEPT !.alone = FALSE].at = q.at /\ [q EXCEPT !.alone = FALSE].cmd = q.cmd
             /\ [q EXCEPT !.alone = FALSE].alone = FALSE
  BY DEF Processes
<1>2. \A u \in Terminals : proc[u] \in Processes
  BY DEF TypeOK
<1>3. proc' = [u \in Terminals |-> IF u = t THEN p ELSE [proc[u] EXCEPT !.alone = FALSE]]
  BY DEF Goes
<1> HIDE DEF Processes
<1>4. QED
  BY <1>1, <1>2, <1>3 DEF Others

\* The command t runs after a step: at a point, and otherwise as before but for
\* what the step says about it.
Same(t, p) == p.cmd = proc[t].cmd /\ p.found = proc[t].found /\ p.alone = proc[t].alone

\* p goes on from t's command, or fails out of it.
Continues(t, p, point) == p.at = point /\ Same(t, p) /\ p.resume = proc[t].resume
Failed(t, p) ==
  /\ p.at = IF proc[t].at \in {"clear", "load", "urls", "update"} THEN "resume" ELSE "done"
  /\ Same(t, p) /\ p.resume = proc[t].resume /\ p.excused = proc[t].excused /\ ~p.ok

LEMMA ToFacts ==
  ASSUME TypeOK, NEW t \in Terminals, NEW point \in RestorePoints \cup BackupPoints \cup InitPoints
  PROVE  /\ To(t, point) \in Processes /\ Continues(t, To(t, point), point)
         /\ To(t, point).excused = proc[t].excused /\ To(t, point).ok = proc[t].ok
         /\ [To(t, point) EXCEPT !.excused = TRUE] \in Processes
         /\ Continues(t, [To(t, point) EXCEPT !.excused = TRUE], point)
         /\ [To(t, point) EXCEPT !.excused = TRUE].excused = TRUE
         /\ [To(t, point) EXCEPT !.excused = TRUE].ok = proc[t].ok
         /\ [To(t, point) EXCEPT !.ok = TRUE] \in Processes
         /\ Continues(t, [To(t, point) EXCEPT !.ok = TRUE], point)
         /\ [To(t, point) EXCEPT !.ok = TRUE].excused = proc[t].excused
         /\ Failed(t, Fails(t)) /\ Fails(t) \in Processes
<1> DEFINE q == proc[t]
<1>1. q \in Processes
  BY DEF TypeOK
<1>2. /\ To(t, point) = [q EXCEPT !.at = point]
      /\ [To(t, point) EXCEPT !.excused = TRUE] = [q EXCEPT !.at = point, !.excused = TRUE]
      /\ [To(t, point) EXCEPT !.ok = TRUE] = [q EXCEPT !.at = point, !.ok = TRUE]
  BY <1>1 DEF To, Processes
<1>3. PICK end \in {"resume", "done"} :
        /\ Fails(t) = [q EXCEPT !.at = end, !.ok = FALSE]
        /\ end = IF proc[t].at \in {"clear", "load", "urls", "update"} THEN "resume" ELSE "done"
  BY <1>1 DEF Fails, Processes
<1>4. /\ [q EXCEPT !.at = point] \in Processes
      /\ [q EXCEPT !.at = point, !.excused = TRUE] \in Processes
      /\ [q EXCEPT !.at = point, !.ok = TRUE] \in Processes
  BY <1>1 DEF Processes
<1>5. [q EXCEPT !.at = end, !.ok = FALSE] \in Processes
  BY <1>1 DEF Processes, RestorePoints
<1>6. /\ Continues(t, [q EXCEPT !.at = point], point)
      /\ Continues(t, [q EXCEPT !.at = point, !.excused = TRUE], point)
      /\ Continues(t, [q EXCEPT !.at = point, !.ok = TRUE], point)
      /\ Failed(t, [q EXCEPT !.at = end, !.ok = FALSE])
  BY <1>1, <1>3 DEF Continues, Failed, Same, Processes
<1>7. /\ [q EXCEPT !.at = point].excused = q.excused /\ [q EXCEPT !.at = point].ok = q.ok
      /\ [q EXCEPT !.at = point, !.excused = TRUE].excused = TRUE
      /\ [q EXCEPT !.at = point, !.excused = TRUE].ok = q.ok
      /\ [q EXCEPT !.at = point, !.ok = TRUE].excused = q.excused
  BY <1>1 DEF Processes
<1> HIDE DEF q
<1>8. QED
  BY <1>2, <1>3, <1>4, <1>5, <1>6, <1>7 DEF q

\* The steps of a backup.
LEMMA BackupFacts ==
  ASSUME TypeOK, NEW t \in Terminals
  PROVE  /\ CreateFile(t) => /\ Others(t) /\ proc' \in [Terminals -> Processes]
                             /\ proc[t].at = "create" /\ Continues(t, proc'[t], "dump")
         /\ backupDatabase(t) => /\ Others(t) /\ proc' \in [Terminals -> Processes]
                                 /\ proc[t].at = "dump"
                                 /\ proc'[t].at = "done" /\ Same(t, proc'[t])
<1>1. ASSUME CreateFile(t)
      PROVE  /\ Others(t) /\ proc' \in [Terminals -> Processes]
             /\ proc[t].at = "create" /\ Continues(t, proc'[t], "dump")
  <2>1. Goes(t, To(t, "dump")) /\ proc[t].at = "create"
    BY <1>1 DEF CreateFile, At
  <2>2. To(t, "dump") \in Processes /\ Continues(t, To(t, "dump"), "dump")
    BY ToFacts DEF BackupPoints
  <2>3. QED
    BY <2>1, <2>2, GoesIs
<1>2. ASSUME backupDatabase(t)
      PROVE  /\ Others(t) /\ proc' \in [Terminals -> Processes]
             /\ proc[t].at = "dump" /\ proc'[t].at = "done" /\ Same(t, proc'[t])
  <2>1. PICK p \in {[To(t, "done") EXCEPT !.ok = TRUE], Fails(t)} : Goes(t, p) /\ proc[t].at = "dump"
    BY <1>2 DEF backupDatabase, At
  <2>2. /\ [To(t, "done") EXCEPT !.ok = TRUE] \in Processes /\ Fails(t) \in Processes
        /\ Continues(t, [To(t, "done") EXCEPT !.ok = TRUE], "done") /\ Failed(t, Fails(t))
    BY ToFacts DEF BackupPoints
  <2>3. p \in Processes /\ Same(t, p) /\ p.at = "done"
    BY <2>1, <2>2 DEF Continues, Failed
  <2>4. QED
    BY <2>1, <2>3, GoesIs
<1>3. QED
  BY <1>1, <1>2

\* A step of an init.
InitStep(t) ==
  StartServices(t) \/ CheckSources(t) \/ CloneSources(t) \/ InstallDependencies(t) \/ OroInstall(t)

LEMMA InitFacts ==
  ASSUME TypeOK, NEW t \in Terminals, InitStep(t)
  PROVE  /\ Others(t) /\ proc' \in [Terminals -> Processes]
         /\ proc'[t].cmd = proc[t].cmd
         /\ proc[t].at \in InitPoints \ {"done"} /\ proc'[t].at \in InitPoints
<1> SUFFICES \E p \in Processes : /\ Goes(t, p) /\ p.cmd = proc[t].cmd
                                  /\ proc[t].at \in InitPoints \ {"done"} /\ p.at \in InitPoints
  BY GoesIs
<1> USE DEF InitPoints, At
<1>1. /\ \A point \in InitPoints : /\ To(t, point) \in Processes
                                   /\ To(t, point).at = point /\ To(t, point).cmd = proc[t].cmd
      /\ [To(t, "done") EXCEPT !.ok = TRUE] \in Processes
      /\ [To(t, "done") EXCEPT !.ok = TRUE].at = "done"
      /\ [To(t, "done") EXCEPT !.ok = TRUE].cmd = proc[t].cmd
  BY ToFacts DEF Continues, Same
<1>2. proc[t].at \in InitPoints \ {"done"} =>
        Fails(t) \in Processes /\ Fails(t).at = "done" /\ Fails(t).cmd = proc[t].cmd
  BY ToFacts DEF Failed, Same
<1>3. CASE StartServices(t)
  <2>1. proc[t].at = "down" /\ (Goes(t, To(t, "check")) \/ Goes(t, Fails(t)))
    BY <1>3 DEF StartServices
  <2>2. QED
    BY <1>1, <1>2, <2>1
<1>4. CASE CheckSources(t)
  <2>1. PICK yes \in BOOLEAN, ex \in BOOLEAN, ok \in BOOLEAN :
          /\ proc[t].at = "check"
          /\ \/ Goes(t, [To(t, "vendor") EXCEPT !.existing = TRUE, !.asked = yes, !.ok = ok])
             \/ Goes(t, [To(t, "clone") EXCEPT !.existing = ex])
    BY <1>4, ConstantsAssumption DEF CheckSources, Asks
  <2>2. ASSUME NEW q \in Processes
        PROVE  /\ [q EXCEPT !.existing = TRUE, !.asked = yes, !.ok = ok] \in Processes
               /\ [q EXCEPT !.existing = TRUE, !.asked = yes, !.ok = ok].at = q.at
               /\ [q EXCEPT !.existing = TRUE, !.asked = yes, !.ok = ok].cmd = q.cmd
               /\ [q EXCEPT !.existing = ex] \in Processes
               /\ [q EXCEPT !.existing = ex].at = q.at /\ [q EXCEPT !.existing = ex].cmd = q.cmd
    BY DEF Processes
  <2> DEFINE v == [To(t, "vendor") EXCEPT !.existing = TRUE, !.asked = yes, !.ok = ok]
             c == [To(t, "clone") EXCEPT !.existing = ex]
  <2>3. v \in Processes /\ v.at = "vendor" /\ v.cmd = proc[t].cmd
    BY <1>1, <2>2
  <2>4. c \in Processes /\ c.at = "clone" /\ c.cmd = proc[t].cmd
    BY <1>1, <2>2
  <2> HIDE DEF v, c
  <2>5. Goes(t, v) \/ Goes(t, c)
    BY <2>1 DEF v, c
  <2>6. QED
    BY <2>1, <2>3, <2>4, <2>5
<1>5. CASE CloneSources(t)
  <2>1. proc[t].at = "clone" /\ (Goes(t, To(t, "install")) \/ Goes(t, Fails(t)))
    BY <1>5 DEF CloneSources
  <2>2. QED
    BY <1>1, <1>2, <2>1
<1>6. CASE InstallDependencies(t)
  <2>1. /\ proc[t].at = "vendor"
        /\ Goes(t, To(t, "done")) \/ Goes(t, To(t, "install")) \/ Goes(t, Fails(t))
    BY <1>6 DEF InstallDependencies
  <2>2. QED
    BY <1>1, <1>2, <2>1
<1>7. CASE OroInstall(t)
  <2>1. /\ proc[t].at = "install"
        /\ Goes(t, [To(t, "done") EXCEPT !.ok = TRUE]) \/ Goes(t, Fails(t))
    BY <1>7 DEF OroInstall
  <2>2. QED
    BY <1>1, <1>2, <2>1
<1>8. QED
  BY <1>3, <1>4, <1>5, <1>6, <1>7 DEF InitStep

\* A step of a restore: to the next point, with the failure it ignored, or out.
RestoreStep(t) ==
  \/ EnsureServicesRunning(t) \/ quiesceOroKernels(t) \/ ClearDatabase(t) \/ LoadDump(t)
  \/ UpdateUrls(t) \/ PlatformUpdate(t) \/ Resume(t)

LEMMA OnwardsFacts ==
  ASSUME TypeOK, NEW t \in Terminals, NEW point \in RestorePoints
  PROVE  /\ Goes(t, To(t, point)) =>
              /\ Others(t) /\ proc' \in [Terminals -> Processes]
              /\ Continues(t, proc'[t], point)
              /\ proc'[t].excused = proc[t].excused /\ proc'[t].ok = proc[t].ok
         /\ Goes(t, [To(t, point) EXCEPT !.excused = TRUE]) =>
              /\ Others(t) /\ proc' \in [Terminals -> Processes]
              /\ Continues(t, proc'[t], point) /\ proc'[t].excused = TRUE
         /\ Goes(t, [To(t, point) EXCEPT !.ok = TRUE]) =>
              /\ Others(t) /\ proc' \in [Terminals -> Processes]
              /\ Continues(t, proc'[t], point) /\ proc'[t].excused = proc[t].excused
         /\ Goes(t, Fails(t)) =>
              Others(t) /\ proc' \in [Terminals -> Processes] /\ Failed(t, proc'[t])
<1>1. ASSUME NEW p \in Processes, Goes(t, p)
      PROVE  proc'[t] = p /\ Others(t) /\ proc' \in [Terminals -> Processes]
  BY <1>1, GoesIs
<1> DEFINE a == To(t, point)
           b == [To(t, point) EXCEPT !.excused = TRUE]
           c == [To(t, point) EXCEPT !.ok = TRUE]
<1>2. /\ a \in Processes /\ Continues(t, a, point) /\ a.excused = proc[t].excused /\ a.ok = proc[t].ok
      /\ b \in Processes /\ Continues(t, b, point) /\ b.excused = TRUE
      /\ c \in Processes /\ Continues(t, c, point) /\ c.excused = proc[t].excused
      /\ Fails(t) \in Processes /\ Failed(t, Fails(t))
  BY ToFacts
<1> HIDE DEF a, b, c
<1>3. /\ Goes(t, a) => /\ Others(t) /\ proc' \in [Terminals -> Processes]
                       /\ Continues(t, proc'[t], point)
                       /\ proc'[t].excused = proc[t].excused /\ proc'[t].ok = proc[t].ok
      /\ Goes(t, b) => /\ Others(t) /\ proc' \in [Terminals -> Processes]
                       /\ Continues(t, proc'[t], point) /\ proc'[t].excused = TRUE
      /\ Goes(t, c) => /\ Others(t) /\ proc' \in [Terminals -> Processes]
                       /\ Continues(t, proc'[t], point) /\ proc'[t].excused = proc[t].excused
      /\ Goes(t, Fails(t)) =>
           Others(t) /\ proc' \in [Terminals -> Processes] /\ Failed(t, proc'[t])
  BY <1>1, <1>2
<1>4. QED
  BY <1>3 DEF a, b, c

\* The pause of the kernels remembers which ones it stopped.
LEMMA QuiesceFacts ==
  ASSUME TypeOK, NEW t \in Terminals, quiesceOroKernels(t)
  PROVE  /\ Others(t) /\ proc' \in [Terminals -> Processes] /\ proc[t].at = "quiesce"
         /\ Same(t, proc'[t]) /\ proc'[t].at = "clear" /\ running' \subseteq running
         /\ ~proc'[t].excused => /\ ~proc[t].excused
                                 /\ running' = running \ RunningServices
                                 /\ proc'[t].resume = RunningServices
<1> DEFINE p == [To(t, "clear") EXCEPT !.resume = RunningServices]
<1>1. To(t, "clear") \in Processes /\ Continues(t, To(t, "clear"), "clear")
      /\ To(t, "clear").excused = proc[t].excused
  BY ToFacts DEF RestorePoints
<1>2. RunningServices \subseteq Kernels
  BY DEF RunningServices
<1>3. /\ p \in Processes /\ Same(t, p) /\ p.at = "clear" /\ p.excused = proc[t].excused
      /\ p.resume = RunningServices
  BY <1>1, <1>2 DEF Processes, Same, Continues
<1>4. proc[t].at = "quiesce"
  BY DEF quiesceOroKernels, At
<1>5. CASE running' = running \ RunningServices /\ Goes(t, p)
  <2> HIDE DEF p
  <2>1. proc'[t] = p /\ Others(t) /\ proc' \in [Terminals -> Processes]
    BY <1>3, <1>5, GoesIs
  <2>2. QED
    BY <1>3, <1>4, <1>5, <2>1
<1>6. CASE \E stopped \in SUBSET RunningServices :
             /\ running' = running \ stopped
             /\ Goes(t, [To(t, "clear") EXCEPT !.excused = TRUE])
  BY <1>4, <1>6, OnwardsFacts DEF RestorePoints, Continues
<1>7. QED
  BY <1>5, <1>6 DEF quiesceOroKernels

LEMMA RestoreFacts ==
  ASSUME TypeOK, NEW t \in Terminals, RestoreStep(t)
  PROVE  /\ Others(t) /\ proc' \in [Terminals -> Processes] /\ Same(t, proc'[t])
         /\ proc[t].at \in RestorePoints \ {"done"} /\ proc'[t].at \in RestorePoints
<1> USE DEF RestorePoints, At, Continues, Failed
<1>1. CASE EnsureServicesRunning(t)
  <2>1. proc[t].at = "ensure" /\ (Goes(t, To(t, "quiesce")) \/ Goes(t, Fails(t)))
    BY <1>1 DEF EnsureServicesRunning
  <2>2. QED
    BY <2>1, OnwardsFacts
<1>2. CASE quiesceOroKernels(t)
  BY <1>2, QuiesceFacts
<1>3. CASE ClearDatabase(t)
  <2>1. proc[t].at = "clear" /\ (Goes(t, To(t, "load")) \/ Goes(t, Fails(t)))
    BY <1>3 DEF ClearDatabase
  <2>2. QED
    BY <2>1, OnwardsFacts
<1>4. CASE LoadDump(t)
  <2>1. /\ proc[t].at = "load"
        /\ \/ Goes(t, To(t, "urls")) \/ Goes(t, [To(t, "urls") EXCEPT !.excused = TRUE])
           \/ Goes(t, Fails(t))
    BY <1>4 DEF LoadDump
  <2>2. QED
    BY <2>1, OnwardsFacts
<1>5. CASE UpdateUrls(t)
  <2>1. /\ proc[t].at = "urls"
        /\ \/ Goes(t, To(t, "update")) \/ Goes(t, [To(t, "update") EXCEPT !.excused = TRUE])
    BY <1>5 DEF UpdateUrls
  <2>2. QED
    BY <2>1, OnwardsFacts
<1>6. CASE PlatformUpdate(t)
  <2>1. /\ proc[t].at = "update"
        /\ \/ Goes(t, [To(t, "resume") EXCEPT !.ok = TRUE]) \/ Goes(t, Fails(t))
    BY <1>6 DEF PlatformUpdate
  <2>2. QED
    BY <2>1, OnwardsFacts
<1>7. CASE Resume(t)
  <2>1. /\ proc[t].at = "resume"
        /\ \/ Goes(t, To(t, "done")) \/ Goes(t, [To(t, "done") EXCEPT !.excused = TRUE])
    BY <1>7 DEF Resume
  <2>2. QED
    BY <2>1, OnwardsFacts
<1>8. QED
  BY <1>1, <1>2, <1>3, <1>4, <1>5, <1>6, <1>7 DEF RestoreStep

\* A command starts with what it found, and ends without a trace.
LEMMA StartFacts ==
  ASSUME TypeOK, NEW t \in Terminals, Start(t)
  PROVE  /\ Others(t) /\ proc' \in [Terminals -> Processes]
         /\ proc'[t].found = running /\ ~proc'[t].ok
         /\ <<proc'[t].cmd, proc'[t].at>> \in
              {<<"backup", "create">>, <<"init", "down">>, <<"restore", "ensure">>}
         /\ proc[t].at \in {"idle", "done"} /\ UNCHANGED <<db, dump, src, code, running, killed>>
<1>1. PICK first \in {<<"backup", "create">>, <<"init", "down">>, <<"restore", "ensure">>} :
        Goes(t, [Idle EXCEPT !.at = first[2], !.cmd = first[1], !.found = running])
  BY DEF Start
<1> DEFINE at == first[2]
           cmd == first[1]
<1> DEFINE p == [Idle EXCEPT !.at = at, !.cmd = cmd, !.found = running]
<1>2. /\ <<cmd, at>> \in {<<"backup", "create">>, <<"init", "down">>, <<"restore", "ensure">>}
      /\ Goes(t, p) /\ running \in SUBSET Services
  BY <1>1 DEF TypeOK
<1> HIDE DEF at, cmd
<1>3. /\ p \in Processes /\ p.found = running /\ ~p.ok
      /\ <<p.cmd, p.at>> \in {<<"backup", "create">>, <<"init", "down">>, <<"restore", "ensure">>}
  <2>1. /\ at \in {"idle"} \cup BackupPoints \cup RestorePoints \cup InitPoints
        /\ cmd \in {"none", "backup", "restore", "init"}
    BY <1>2 DEF BackupPoints, RestorePoints, InitPoints
  <2>2. Idle \in Processes /\ ~Idle.ok
    BY DEF Idle, Processes
  <2>3. /\ p \in Processes /\ p.at = at /\ p.cmd = cmd /\ p.found = running /\ p.ok = Idle.ok
    BY <1>2, <2>1, <2>2 DEF Processes
  <2>4. QED
    BY <1>2, <2>2, <2>3
<1> HIDE DEF p
<1>4. proc'[t] = p /\ Others(t) /\ proc' \in [Terminals -> Processes]
  BY <1>2, <1>3, GoesIs
<1>5. QED
  BY <1>3, <1>4 DEF Start

LEMMA KillFacts ==
  ASSUME TypeOK, NEW t \in Terminals, Kill(t)
  PROVE  /\ proc' \in [Terminals -> Processes] /\ proc'[t] = Idle
         /\ \A u \in Terminals \ {t} : proc'[u] = proc[u]
         /\ UNCHANGED <<db, dump, code, running>> /\ killed' = TRUE
<1>1. Idle \in Processes
  BY DEF Idle, Processes
<1>2. QED
  BY <1>1 DEF Kill, TypeOK

LEMMA EventFacts ==
  ASSUME TypeOK, Event
  PROVE  /\ proc' \in [Terminals -> Processes]
         /\ \A u \in Terminals : /\ proc'[u].at = proc[u].at /\ proc'[u].cmd = proc[u].cmd
                                 /\ proc'[u].alone = FALSE
         /\ UNCHANGED <<dump, killed>>
<1>1. ASSUME NEW q \in Processes
      PROVE  /\ [q EXCEPT !.alone = FALSE] \in Processes
             /\ [q EXCEPT !.alone = FALSE].at = q.at /\ [q EXCEPT !.alone = FALSE].cmd = q.cmd
             /\ [q EXCEPT !.alone = FALSE].alone = FALSE
  BY DEF Processes
<1>2. \A u \in Terminals : proc[u] \in Processes
  BY DEF TypeOK
<1>3. proc' = [u \in Terminals |-> [proc[u] EXCEPT !.alone = FALSE]] /\ UNCHANGED <<dump, killed>>
  BY DEF Event
<1> HIDE DEF Processes
<1>4. QED
  BY <1>1, <1>2, <1>3

-----------------------------------------------------------------------------
(* Types.                                                                   *)

LEMMA DatabaseTypes ==
  /\ Fresh \in Databases /\ Absent \in Databases
  /\ \A d \in Datas, n \in Nat : Database(d, TRUE, n, "project") \in Databases
  /\ [Fresh EXCEPT !.whole = FALSE] \in Databases
  /\ \A d \in Databases \cup {Torn} : Part(d) \in Databases
<1>1. Fresh \in Databases /\ Absent \in Databases
  BY DEF Fresh, Absent, Database, Databases
<1>2. \A d \in Datas, n \in Nat : Database(d, TRUE, n, "project") \in Databases
  BY DEF Database, Databases
<1>3. \A d \in Databases : [d EXCEPT !.whole = FALSE] \in Databases
  BY DEF Databases
<1>4. \A d \in Databases \cup {Torn} : Part(d) \in Databases
  BY <1>1, <1>3 DEF Part
<1>5. QED
  BY <1>1, <1>2, <1>3, <1>4

LEMMA TypedInit == Init => Typed
<1> SUFFICES ASSUME Init PROVE Typed
  OBVIOUS
<1>1. \A t \in Terminals : proc[t] = Idle
  BY DEF Init
<1>2. Idle \in Processes /\ Idle.at \in PointsOf(Idle.cmd)
  BY DEF Idle, Processes, PointsOf
<1>3. proc \in [Terminals -> Processes] /\ OnItsWay
  BY <1>1, <1>2 DEF Init, OnItsWay
<1>4. db \in Databases /\ dump \in Databases \cup {Torn}
  <2>1. \A d \in Datas : /\ Database(d, TRUE, 1, "project") \in Databases
                         /\ Database(d, TRUE, 0, "foreign") \in Databases
    BY DEF Database, Databases
  <2>2. QED
    BY <2>1, DatabaseTypes DEF Init
<1>5. running \in SUBSET Services
  BY DEF Init, Services
<1>6. /\ src \in {"none", "partial", "novendor", "ready"} /\ code \in Nat /\ killed \in BOOLEAN
      /\ count \in [commands : 0..MaxCommands, events : 0..MaxEvents]
  <2>1. src \in {"none", "novendor"} /\ code = 1 /\ killed = FALSE /\ count = [commands |-> 0, events |-> 0]
    BY DEF Init
  <2>2. 0 \in 0..MaxCommands /\ 0 \in 0..MaxEvents
    BY ConstantsAssumption
  <2>3. QED
    BY <2>1, <2>2
<1>7. QED
  BY <1>3, <1>4, <1>5, <1>6 DEF Typed, TypeOK

\* The commands keep their points when one of them takes a step of its own.
LEMMA OnItsWayStep ==
  ASSUME Typed, NEW t \in Terminals, Others(t), proc'[t].at \in PointsOf(proc'[t].cmd)
  PROVE  OnItsWay'
BY DEF OnItsWay, Typed, Others

LEMMA StartedType ==
  ASSUME TypeOK, NEW names \in SUBSET Services
  PROVE  Started(names) \in SUBSET Services
BY DEF Started, TypeOK

LEMMA CommandTyped ==
  ASSUME Typed, NEW t \in Terminals,
         Start(t) \/ CreateFile(t) \/ backupDatabase(t) \/ RestoreStep(t) \/ InitStep(t)
  PROVE  proc' \in [Terminals -> Processes] /\ OnItsWay'
<1> USE DEF Typed, PointsOf
<1>0. proc[t].at \in PointsOf(proc[t].cmd) /\ proc[t].cmd \in {"none", "backup", "restore", "init"}
  BY DEF OnItsWay, TypeOK, Processes
<1>1. CASE Start(t)
  <2>1. proc'[t].at \in PointsOf(proc'[t].cmd)
    BY <1>1, StartFacts DEF BackupPoints, RestorePoints, InitPoints
  <2>2. QED
    BY <1>1, <2>1, StartFacts, OnItsWayStep
<1>2. CASE CreateFile(t) \/ backupDatabase(t)
  <2>1. /\ proc'[t].cmd = proc[t].cmd /\ proc[t].at \in {"create", "dump"} /\ proc'[t].at \in {"dump", "done"}
        /\ Others(t) /\ proc' \in [Terminals -> Processes]
    BY <1>2, BackupFacts DEF Continues, Same
  <2>2. proc'[t].at \in PointsOf(proc'[t].cmd)
    BY <1>0, <2>1 DEF BackupPoints, RestorePoints, InitPoints
  <2>3. QED
    BY <2>1, <2>2, OnItsWayStep
<1>3. CASE RestoreStep(t)
  <2>1. /\ proc'[t].cmd = proc[t].cmd /\ proc[t].at \in RestorePoints \ {"done"} /\ proc'[t].at \in RestorePoints
        /\ Others(t) /\ proc' \in [Terminals -> Processes]
    BY <1>3, RestoreFacts DEF Same
  <2>2. proc'[t].at \in PointsOf(proc'[t].cmd)
    BY <1>0, <2>1 DEF BackupPoints, RestorePoints, InitPoints
  <2>3. QED
    BY <2>1, <2>2, OnItsWayStep
<1>4. CASE InitStep(t)
  <2>1. /\ proc'[t].cmd = proc[t].cmd /\ proc[t].at \in InitPoints \ {"done"} /\ proc'[t].at \in InitPoints
        /\ Others(t) /\ proc' \in [Terminals -> Processes]
    BY <1>4, InitFacts
  <2>2. proc'[t].at \in PointsOf(proc'[t].cmd)
    BY <1>0, <2>1 DEF BackupPoints, RestorePoints, InitPoints
  <2>3. QED
    BY <2>1, <2>2, OnItsWayStep
<1>5. QED
  BY <1>1, <1>2, <1>3, <1>4

LEMMA TypedStep == Typed /\ [Next]_vars => Typed'
<1> SUFFICES ASSUME Typed, [Next]_vars PROVE Typed'
  OBVIOUS
<1> USE DEF Typed
<1>0. TypeOK
  OBVIOUS
<1>1. ASSUME NEW t \in Terminals, Start(t) PROVE Typed'
  <2>1. count' \in [commands : 0..MaxCommands, events : 0..MaxEvents]
    BY <1>1, ConstantsAssumption DEF Start, TypeOK
  <2>2. UNCHANGED <<db, dump, src, code, running, killed>>
    BY <1>1 DEF Start
  <2>3. QED
    BY <1>1, <2>1, <2>2, CommandTyped DEF TypeOK
<1>2. ASSUME NEW t \in Terminals, CreateFile(t) \/ backupDatabase(t) PROVE Typed'
  <2>1. dump' \in Databases \cup {Torn}
    BY <1>2, DatabaseTypes DEF CreateFile, backupDatabase, RemoveFile, TypeOK
  <2>2. UNCHANGED <<db, src, code, running, count, killed>>
    BY <1>2 DEF CreateFile, backupDatabase
  <2>3. QED
    BY <1>2, <2>1, <2>2, CommandTyped DEF TypeOK
<1>3. ASSUME NEW t \in Terminals, RestoreStep(t) PROVE Typed'
  <2>1. UNCHANGED <<dump, src, code, count, killed>>
    BY <1>3 DEF RestoreStep, EnsureServicesRunning, quiesceOroKernels, ClearDatabase, LoadDump,
       UpdateUrls, PlatformUpdate, Resume
  <2>2. db' \in Databases
    <3>1. CASE UNCHANGED db
      BY <3>1 DEF TypeOK
    <3>2. CASE ClearDatabase(t)
      BY <3>2, DatabaseTypes DEF ClearDatabase, Cleared, TypeOK
    <3>3. CASE LoadDump(t)
      BY <3>3, DatabaseTypes DEF LoadDump, TypeOK
    <3>4. CASE UpdateUrls(t)
      BY <3>4 DEF UpdateUrls, TypeOK, Databases
    <3>5. CASE PlatformUpdate(t)
      BY <3>5 DEF PlatformUpdate, TypeOK, Databases
    <3>6. QED
      BY <1>3, <3>1, <3>2, <3>3, <3>4, <3>5
         DEF RestoreStep, EnsureServicesRunning, quiesceOroKernels, Resume
  <2>3. running' \in SUBSET Services
    <3>1. CASE UNCHANGED running
      BY <3>1 DEF TypeOK
    <3>2. CASE EnsureServicesRunning(t)
      BY <3>2, StartedType DEF EnsureServicesRunning, EnsureStarts, Services, TypeOK
    <3>3. CASE quiesceOroKernels(t)
      BY <3>3, QuiesceFacts DEF TypeOK
    <3>4. CASE Resume(t)
      <4>1. proc[t].resume \in SUBSET Services
        BY DEF TypeOK, Processes, Services
      <4>2. QED
        BY <3>4, <4>1, StartedType DEF Resume
    <3>5. QED
      BY <1>3, <3>1, <3>2, <3>3, <3>4 DEF RestoreStep, ClearDatabase, LoadDump, UpdateUrls, PlatformUpdate
  <2>4. QED
    BY <1>3, <2>1, <2>2, <2>3, CommandTyped DEF TypeOK
<1>4. ASSUME NEW t \in Terminals, InitStep(t) PROVE Typed'
  <2>1. UNCHANGED <<dump, code, count, killed>>
    BY <1>4 DEF InitStep, StartServices, CheckSources, CloneSources, InstallDependencies, OroInstall
  <2>2. db' \in Databases
    BY <1>4, DatabaseTypes
       DEF InitStep, StartServices, CheckSources, CloneSources, InstallDependencies, OroInstall, TypeOK
  <2>3. src' \in {"none", "partial", "novendor", "ready"}
    BY <1>4 DEF InitStep, StartServices, CheckSources, CloneSources, InstallDependencies, OroInstall, TypeOK
  <2>4. running' \in SUBSET Services
    <3>1. CASE StartServices(t)
      <4>1. PICK left \in {{}, running} : running' \in {left, left \cup {"db"}}
        BY <3>1 DEF StartServices
      <4>2. left \in SUBSET Services /\ {"db"} \in SUBSET Services
        BY <4>1 DEF TypeOK, Services
      <4>3. QED
        BY <4>1, <4>2
    <3>2. CASE UNCHANGED running
      BY <3>2 DEF TypeOK
    <3>3. QED
      BY <1>4, <3>1, <3>2 DEF InitStep, CheckSources, CloneSources, InstallDependencies, OroInstall
  <2>5. QED
    BY <1>4, <2>1, <2>2, <2>3, <2>4, CommandTyped DEF TypeOK
<1>5. ASSUME NEW t \in Terminals, Kill(t) PROVE Typed'
  <2>1. OnItsWay'
    <3>1. Idle.at \in PointsOf(Idle.cmd)
      BY DEF PointsOf, Idle
    <3>2. QED
      BY <1>5, <3>1, KillFacts DEF OnItsWay
  <2>2. UNCHANGED <<db, dump, src, code, running, count>> /\ killed' = TRUE
    BY <1>5 DEF Kill
  <2>3. QED
    BY <1>5, <2>1, <2>2, KillFacts DEF TypeOK
<1>6. CASE Event
  <2>1. count' \in [commands : 0..MaxCommands, events : 0..MaxEvents]
    BY <1>6, ConstantsAssumption DEF Event, TypeOK
  <2>2. db' \in Databases
    BY <1>6 DEF Event, TypeOK, Databases
  <2>3. running' \in SUBSET Services
    BY <1>6, StartedType DEF Event, TypeOK
  <2>4. code' \in Nat /\ src' = src
    <3>1. code' \in {code, code + 1} /\ src' = src
      BY <1>6 DEF Event
    <3>2. QED
      BY <3>1 DEF TypeOK
  <2>5. OnItsWay'
    BY <1>6, EventFacts DEF OnItsWay, PointsOf
  <2>6. QED
    BY <1>6, <2>1, <2>2, <2>3, <2>4, <2>5, EventFacts DEF TypeOK
<1>7. CASE UNCHANGED vars
  BY <1>7 DEF vars, TypeOK, OnItsWay
<1>8. QED
  BY <1>1, <1>2, <1>3, <1>4, <1>5, <1>6, <1>7 DEF Next, RestoreStep, InitStep

(* Every variable keeps its type, however many commands, terminals and      *)
(* kernels there are.                                                       *)
THEOREM TypeCorrect == Spec => []TypeOK
<1>1. Spec => []Typed
  BY TypedInit, TypedStep, PTL DEF Spec
<1>2. Typed => TypeOK
  BY DEF Typed
<1>3. QED
  BY <1>1, <1>2, PTL

-----------------------------------------------------------------------------
(* The dump file. On typed states TornMeansKilled is inductive: only        *)
(* CreateFile tears the file, and a backup that is over has replaced it.    *)

LEMMA TornIsNoDatabase == Torn \notin Databases /\ Torn # Absent
BY ConstantsAssumption DEF Torn, Absent, Database, Databases

LEMMA TornStep ==
  ASSUME Typed, TornMeansKilled, [Next]_vars
  PROVE  TornMeansKilled'
<1> USE DEF Typed, At
<1>1. ASSUME NEW t \in Terminals, CreateFile(t) PROVE TornMeansKilled'
  <2>1. proc'[t].at = "dump"
    BY <1>1, BackupFacts DEF Continues
  <2>2. QED
    BY <2>1 DEF TornMeansKilled
<1>2. ASSUME NEW t \in Terminals, backupDatabase(t) PROVE TornMeansKilled'
  <2>1. dump' \in Databases
    BY <1>2, DatabaseTypes DEF backupDatabase, RemoveFile, TypeOK
  <2>2. QED
    BY <2>1, TornIsNoDatabase DEF TornMeansKilled
<1>3. ASSUME NEW t \in Terminals, Start(t) \/ RestoreStep(t) \/ InitStep(t) PROVE TornMeansKilled'
  <2>1. UNCHANGED <<dump, killed>>
    BY <1>3 DEF Start, RestoreStep, EnsureServicesRunning, quiesceOroKernels, ClearDatabase, LoadDump,
       UpdateUrls, PlatformUpdate, Resume, InitStep, StartServices, CheckSources, CloneSources,
       InstallDependencies, OroInstall
  <2>2. proc[t].at # "dump" /\ Others(t)
    BY <1>3, StartFacts, RestoreFacts, InitFacts DEF RestorePoints, InitPoints
  <2>3. QED
    BY <2>1, <2>2 DEF TornMeansKilled, Others
<1>4. ASSUME NEW t \in Terminals, Kill(t) PROVE TornMeansKilled'
  BY <1>4 DEF Kill, TornMeansKilled
<1>5. CASE Event
  BY <1>5, EventFacts DEF TornMeansKilled
<1>6. CASE UNCHANGED vars
  BY <1>6 DEF vars, TornMeansKilled
<1>7. QED
  BY <1>1, <1>2, <1>3, <1>4, <1>5, <1>6 DEF Next, RestoreStep, InitStep

(* A file that holds the beginning of a dump is being written, or its       *)
(* backup was killed: backupDatabase takes away what a failing pg_dump left.*)
THEOREM TornFilesAreKilledBackups == Spec => []TornMeansKilled
<1>1. Init => TornMeansKilled
  <2>1. \A d \in Datas : Database(d, TRUE, 0, "foreign") # Torn
    BY ConstantsAssumption DEF Torn, Database
  <2>2. QED
    BY <2>1, TornIsNoDatabase DEF Init, TornMeansKilled
<1>2. Typed /\ TornMeansKilled /\ [Next]_vars => TornMeansKilled'
  BY TornStep
<1>3. QED
  BY <1>1, <1>2, TypedInit, TypedStep, PTL DEF Spec

-----------------------------------------------------------------------------
(* The restore. A step of anybody else ends its being alone, so what it     *)
(* knows of the stack and of the database only has to survive its own.      *)

Restores(t) == proc[t].cmd = "restore" /\ Undisturbed(t)

LEMMA OwnStep ==
  ASSUME Typed, Restoring, NEW t \in Terminals, Others(t),
         Restores(t)' => Handling(t)' /\ Loading(t)'
  PROVE  Restoring'
BY DEF Restoring, Restores, Undisturbed, Others

\* What the steps of a restore leave of the kernels.
LEMMA HandlingStep ==
  ASSUME Typed, NEW t \in Terminals, RestoreStep(t), Restores(t)', Restores(t) => Handling(t)
  PROVE  Handling(t)'
<1> USE DEF Typed, Handling, Kernel, Restores, Undisturbed, At, Continues, Failed, Same, RestorePoints
<1>0. /\ proc[t].found \in SUBSET Services /\ proc[t].resume \in SUBSET Kernels
      /\ running \in SUBSET Services /\ "application" \notin Kernels /\ "db" \notin Kernels
  BY ConstantsAssumption DEF TypeOK, Processes
<1>1. CASE EnsureServicesRunning(t)
  <2>1. /\ proc[t].at = "ensure"
        /\ \/ running' = EnsureStarts /\ Goes(t, To(t, "quiesce"))
           \/ running' \in {running, EnsureStarts} /\ Goes(t, Fails(t))
    BY <1>1 DEF EnsureServicesRunning
  <2>2. proc[t].excused = proc'[t].excused /\ Same(t, proc'[t]) /\ proc'[t].at \in {"quiesce", "done"}
    BY <2>1, OnwardsFacts
  <2>3. CASE "application" \in proc[t].found
    <3>1. running \cap Kernels = Kernel(t) /\ "application" \in running
      BY <2>1, <2>2, <2>3
    <3>2. EnsureStarts = running \cup ({"db", "application"} \ running)
      BY <3>1 DEF EnsureStarts, Started
    <3>3. running' \cap Kernels = running \cap Kernels /\ "application" \in running'
      BY <1>0, <2>1, <3>1, <3>2
    <3>4. QED
      BY <2>2, <3>1, <3>3
  <2>4. QED
    BY <2>2, <2>3
<1>2. CASE quiesceOroKernels(t)
  <2>1. /\ proc[t].at = "quiesce" /\ Same(t, proc'[t]) /\ proc'[t].at = "clear" /\ ~proc[t].excused
        /\ running' = running \ RunningServices /\ proc'[t].resume = RunningServices
    BY <1>2, QuiesceFacts
  <2>2. QED
    BY <2>1 DEF RunningServices
<1>3. CASE ClearDatabase(t) \/ LoadDump(t) \/ UpdateUrls(t) \/ PlatformUpdate(t)
  <2>1. proc[t].at \in {"clear", "load", "urls", "update"} /\ running' = running
    BY <1>3 DEF ClearDatabase, LoadDump, UpdateUrls, PlatformUpdate
  <2>2. /\ proc'[t].at \in {"load", "urls", "update", "resume"} /\ Same(t, proc'[t])
        /\ proc'[t].resume = proc[t].resume /\ (proc[t].excused => proc'[t].excused)
    BY <1>3, <2>1, OnwardsFacts DEF ClearDatabase, LoadDump, UpdateUrls, PlatformUpdate
  <2>3. QED
    BY <2>1, <2>2
<1>4. CASE Resume(t)
  <2>1. CASE running' = Started(proc[t].resume) /\ Goes(t, To(t, "done"))
    <3>1. /\ proc[t].at = "resume" /\ proc'[t].at = "done" /\ Same(t, proc'[t])
          /\ proc'[t].excused = proc[t].excused
      BY <1>4, <2>1, OnwardsFacts DEF Resume
    <3>2. running' = running \cup proc[t].resume
      BY <1>0, <2>1 DEF Started
    <3>3. QED
      BY <3>1, <3>2
  <2>2. CASE Goes(t, [To(t, "done") EXCEPT !.excused = TRUE])
    BY <2>2, OnwardsFacts
  <2>3. QED
    BY <1>4, <2>1, <2>2 DEF Resume
<1>5. QED
  BY <1>1, <1>2, <1>3, <1>4 DEF RestoreStep

\* What they make of the database.
LEMMA LoadingStep ==
  ASSUME Typed, NEW t \in Terminals, RestoreStep(t), Restores(t)', Restores(t) => Loading(t)
  PROVE  Loading(t)'
<1> USE DEF Typed, Loading, Restores, Undisturbed, At, Continues, Failed, Same, RestorePoints
<1>0. dump' = dump /\ code' = code
  BY DEF RestoreStep, EnsureServicesRunning, quiesceOroKernels, ClearDatabase, LoadDump,
     UpdateUrls, PlatformUpdate, Resume
<1>1. CASE EnsureServicesRunning(t)
  <2>1. proc[t].at = "ensure" /\ (Goes(t, To(t, "quiesce")) \/ Goes(t, Fails(t)))
    BY <1>1 DEF EnsureServicesRunning
  <2>2. QED
    BY <2>1, OnwardsFacts
<1>2. CASE quiesceOroKernels(t)
  BY <1>2, QuiesceFacts
<1>3. CASE ClearDatabase(t)
  <2>1. /\ proc[t].at = "clear"
        /\ \/ db' = Fresh /\ Goes(t, To(t, "load"))
           \/ Goes(t, Fails(t))
    BY <1>3 DEF ClearDatabase, Cleared
  <2>2. QED
    BY <2>1, OnwardsFacts
<1>4. CASE LoadDump(t)
  <2>1. /\ proc[t].at = "load"
        /\ \/ db' = (IF db = Fresh THEN dump ELSE db) /\ Goes(t, To(t, "urls"))
           \/ Goes(t, [To(t, "urls") EXCEPT !.excused = TRUE])
           \/ Goes(t, Fails(t))
    BY <1>4 DEF LoadDump
  <2>2. QED
    BY <1>0, <2>1, OnwardsFacts
<1>5. CASE UpdateUrls(t)
  <2>1. /\ proc[t].at = "urls"
        /\ \/ db' = [db EXCEPT !.urls = "project"] /\ Goes(t, To(t, "update"))
           \/ Goes(t, [To(t, "update") EXCEPT !.excused = TRUE])
    BY <1>5 DEF UpdateUrls
  <2>2. QED
    BY <1>0, <2>1, OnwardsFacts
<1>6. CASE PlatformUpdate(t)
  <2>1. /\ proc[t].at = "update"
        /\ \/ db' = [db EXCEPT !.level = code] /\ Goes(t, [To(t, "resume") EXCEPT !.ok = TRUE])
           \/ Goes(t, Fails(t))
    BY <1>6 DEF PlatformUpdate
  <2>2. CASE Goes(t, Fails(t))
    BY <2>1, <2>2, OnwardsFacts
  <2>3. CASE db' = [db EXCEPT !.level = code] /\ Goes(t, [To(t, "resume") EXCEPT !.ok = TRUE])
    <3>1. proc'[t].at = "resume" /\ Restores(t)
      BY <2>1, <2>3, OnwardsFacts
    <3>2. db = [dump EXCEPT !.urls = "project"]
      BY <2>1, <3>1
    <3>3. db' = [dump EXCEPT !.level = code, !.urls = "project"]
      BY <2>3, <3>2 DEF TypeOK, Databases, Torn, Database
    <3>4. QED
      BY <1>0, <3>1, <3>3
  <2>4. QED
    BY <2>1, <2>2, <2>3
<1>7. CASE Resume(t)
  <2>1. /\ proc[t].at = "resume" /\ db' = db
        /\ Goes(t, To(t, "done")) \/ Goes(t, [To(t, "done") EXCEPT !.excused = TRUE])
    BY <1>7 DEF Resume
  <2>2. proc'[t].at = "done" /\ proc'[t].ok = proc[t].ok /\ Restores(t)
    BY <2>1, OnwardsFacts
  <2>3. QED
    BY <1>0, <2>1, <2>2
<1>8. QED
  BY <1>1, <1>2, <1>3, <1>4, <1>5, <1>6, <1>7 DEF RestoreStep

LEMMA RestoringStep ==
  ASSUME Typed, Restoring, [Next]_vars
  PROVE  Restoring'
<1> USE DEF Typed
<1>1. ASSUME NEW t \in Terminals, RestoreStep(t) PROVE Restoring'
  <2>1. Restores(t) => Handling(t) /\ Loading(t)
    BY DEF Restoring, Restores
  <2>2. QED
    BY <1>1, <2>1, RestoreFacts, HandlingStep, LoadingStep, OwnStep
<1>2. ASSUME NEW t \in Terminals, Start(t) PROVE Restoring'
  <2>1. Restores(t)' => Handling(t)' /\ Loading(t)'
    BY <1>2, StartFacts DEF Restores, Handling, Loading, Kernel
  <2>2. QED
    BY <1>2, <2>1, StartFacts, OwnStep
<1>3. ASSUME NEW t \in Terminals, CreateFile(t) \/ backupDatabase(t) \/ InitStep(t) PROVE Restoring'
  <2>1. Others(t) /\ proc'[t].cmd = proc[t].cmd
        /\ proc[t].at \in {"create", "dump"} \cup (InitPoints \ {"done"})
    BY <1>3, BackupFacts, InitFacts DEF Continues, Same
  <2>2. proc[t].cmd # "restore"
    BY <2>1 DEF OnItsWay, PointsOf, RestorePoints, InitPoints
  <2>3. QED
    BY <2>1, <2>2, OwnStep DEF Restores
<1>4. ASSUME NEW t \in Terminals, Kill(t) PROVE Restoring'
  <2>1. /\ proc'[t] = Idle /\ UNCHANGED <<db, dump, code, running>>
        /\ \A u \in Terminals \ {t} : proc'[u] = proc[u]
    BY <1>4, KillFacts
  <2>2. Idle.cmd # "restore"
    BY DEF Idle
  <2>3. QED
    BY <2>1, <2>2 DEF Restoring, Undisturbed, Handling, Loading, Kernel
<1>5. CASE Event
  BY <1>5, EventFacts DEF Restoring, Undisturbed
<1>6. CASE UNCHANGED vars
  BY <1>6 DEF vars, Restoring, Undisturbed, Handling, Loading, Kernel
<1>7. QED
  BY <1>1, <1>2, <1>3, <1>4, <1>5, <1>6 DEF Next, RestoreStep, InitStep

LEMMA RestoringHolds == Spec => []Restoring
<1>1. Init => Restoring
  BY DEF Init, Restoring, Idle
<1>2. Typed /\ Restoring /\ [Next]_vars => Restoring'
  BY RestoringStep
<1>3. QED
  BY <1>1, <1>2, TypedInit, TypedStep, PTL DEF Spec

(* A restore hands the stack back with the kernels it found: what it        *)
(* stopped, and nothing else, is started again on every way out.            *)
THEOREM StackIsHandedBack == Spec => []StackAsFound
<1>1. Restoring => StackAsFound
  BY DEF Restoring, StackAsFound, Handling, Kernel, At
<1>2. QED
  BY <1>1, RestoringHolds, PTL

(* A restore that reports success over no failure it ignores has brought    *)
(* the dump, under the project's urls and at the level of the code.         *)
THEOREM RestoresBringTheDump == Spec => []RestoreBringsTheDump
<1>1. Restoring => RestoreBringsTheDump
  BY DEF Restoring, RestoreBringsTheDump, Loading, Succeeded, At
<1>2. QED
  BY <1>1, RestoringHolds, PTL
=============================================================================
