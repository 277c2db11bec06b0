------------------------------ MODULE QaWarmup ------------------------------
(***************************************************************************)
(* The QA step's warm-up (plan.go, qaWarmupCommand): it makes the installed *)
(* database and the dumped test container that PHPStan reads match the      *)
(* code, reusing, updating or rebuilding what earlier runs left on two      *)
(* volumes.  Runs on the same volumes take turns; a run may be killed       *)
(* between two commands, and the engine may drop an idle volume.            *)
(***************************************************************************)
EXTENDS FiniteSets

CONSTANTS
  Sources,    \* commits, as far as composer.lock and the migration files differ
  Migrations, \* all their migrations
  Needs,      \* the migrations of each source
  SeedDump,   \* whether the image carries a dump for this Postgres major
  Seed        \* the migrations in that dump

NoPrint == "no fingerprint"
NoContainer == "no container"

ASSUME QaAssumption ==
  /\ Needs \in [Sources -> SUBSET Migrations]
  /\ SeedDump \in BOOLEAN /\ Seed \in SUBSET Migrations
  /\ NoPrint \notin Sources /\ NoContainer \notin Sources

VARIABLES
  db,        \* the Postgres data volume
  stamp,     \* .orobox-qa-fingerprint, on the var/cache volume
  container, \* the source whose container var/cache/test holds, on the same volume
  run,       \* program point and inputs of the script
  mishaps    \* what happened so far: kill (a run was killed), drift (a volume was lost)

volumes == <<db, stamp, container>>
warmupVars == <<volumes, run, mishaps>>

\* A database is torn when an update of it was killed and nothing has rebuilt it since.
EmptyDb == [schema |-> {}, state |-> "empty"]
BrokenDb == [db EXCEPT !.state = "broken"]
TornDb == [db EXCEPT !.state = "torn"]
NoRun == [pc |-> "idle", source |-> NoPrint, noCache |-> FALSE, psql |-> TRUE, print |-> NoPrint]

Reached(point) == run.pc = point
Goto(point) == run' = [run EXCEPT !.pc = point]
Abort == run' = NoRun

WarmupInit ==
  /\ db = EmptyDb /\ stamp = NoPrint /\ container = NoContainer
  /\ run = NoRun /\ mishaps = {}

\* A run reaches the warm-up; the sources may not be readable for the fingerprint, and the
\* psql client not installable.
BeginWarmup ==
  /\ Reached("idle")
  /\ \E s \in Sources, noCache \in BOOLEAN, psql \in BOOLEAN : \E print \in {s, NoPrint} :
       run' = [pc |-> "decide", source |-> s, noCache |-> noCache, psql |-> psql,
               print |-> print]
  /\ UNCHANGED volumes

UsesCache == run.print # NoPrint /\ ~run.noCache
ReusableM == UsesCache /\ container # NoContainer
Reusable == UsesCache /\ stamp = run.print /\ container # NoContainer

Reuse ==
  /\ Reached("decide") /\ Reusable
  /\ Goto("ready")
  /\ UNCHANGED volumes

\* The stale install: the container goes, the stamp stays.
TakeStale ==
  /\ Reached("decide") /\ ~Reusable
  /\ UsesCache /\ stamp # NoPrint
  /\ container' = NoContainer
  /\ Goto("update")
  /\ UNCHANGED <<db, stamp>>

\* full_install
ClearAll ==
  /\ Reached("decide") /\ ~Reusable
  /\ ~(UsesCache /\ stamp # NoPrint)
  /\ container' = NoContainer /\ stamp' = NoPrint
  /\ Goto("seed")
  /\ UNCHANGED db

\* What oro:platform:update leaves when it succeeds: it applies the migrations that are not
\* recorded. Over what a killed update left, it may find the rest in order or miss that a
\* recorded migration was not carried out to its end.
Migrated == {[schema |-> db.schema \cup Needs[run.source], state |-> s] : s \in {db.state, "whole"}}

UpdateM ==
  /\ Reached("update")
  /\ \/ db.state # "empty" /\ db' \in Migrated
     \/ db' = BrokenDb
  /\ Goto("warmStale")
  /\ UNCHANGED <<stamp, container>>

\* oro:platform:update over what the volume holds; without an installation it fails.
Update ==
  /\ Reached("update")
  /\ \/ db.state # "empty" /\ db' \in Migrated /\ Goto("warmStale") /\ UNCHANGED stamp
     \/ db' = BrokenDb /\ stamp' = NoPrint /\ Goto("seed")
  /\ UNCHANGED container

\* cache:warmup; when it fails the full install starts by clearing the volume.
WarmStale ==
  /\ Reached("warmStale")
  /\ \/ container' = run.source /\ Goto("stamp") /\ UNCHANGED stamp
     \/ container' = NoContainer /\ stamp' = NoPrint /\ Goto("seed")
  /\ UNCHANGED db

\* bin/console needs a kernel, which an install that died half-way does not give it.
CanReset == run.psql \/ db.state # "broken"

\* seed_install as far as the dump: any failure falls back to the install.
TakeSeed ==
  /\ Reached("seed")
  /\ ~run.noCache /\ SeedDump /\ run.psql
  /\ \/ db' = [schema |-> Seed, state |-> "whole"] /\ Goto("reconcile")
     \/ db' \in {db, BrokenDb} /\ Goto("install")
  /\ UNCHANGED <<stamp, container>>

NoSeed ==
  /\ Reached("seed")
  /\ run.noCache \/ ~SeedDump \/ ~run.psql
  /\ Goto("install")
  /\ UNCHANGED volumes

Reconcile ==
  /\ Reached("reconcile")
  /\ \/ db' \in Migrated /\ Goto("warm")
     \/ db' = BrokenDb /\ Goto("install")
  /\ UNCHANGED <<stamp, container>>

\* reset_schema and oro:install --drop-database.
Install ==
  /\ Reached("install")
  /\ \/ CanReset /\ db' = [schema |-> Needs[run.source], state |-> "whole"] /\ Goto("warm")
     \/ db' \in {db, EmptyDb, BrokenDb} /\ Abort
  /\ UNCHANGED <<stamp, container>>

Warm ==
  /\ Reached("warm")
  /\ \/ container' = run.source /\ Goto("stamp")
     \/ container' \in {NoContainer, run.source} /\ Abort
  /\ UNCHANGED <<db, stamp>>

SaveStamp ==
  /\ Reached("stamp")
  /\ stamp' = IF run.print = NoPrint THEN stamp ELSE run.print
  /\ Goto("ready")
  /\ UNCHANGED <<db, container>>

\* The QA tools end.
Analyse == Reached("ready") /\ Abort /\ UNCHANGED volumes

\* The job is cancelled in the middle of a command. A killed update leaves the old stamp.
Kill ==
  /\ ~Reached("idle")
  /\ mishaps' = mishaps \cup {"kill"}
  /\ db' \in {db} \cup (IF run.pc \in {"seed", "reconcile", "install"} THEN {BrokenDb} ELSE {})
                   \cup (IF Reached("update") THEN {TornDb} ELSE {})
  /\ container' \in {container} \cup (IF run.pc \in {"warmStale", "warm"}
                                      THEN {run.source} ELSE {})
  /\ stamp' \in {stamp} \cup (IF Reached("stamp") THEN {NoPrint} ELSE {})
  /\ Abort

\* The engine reclaims one of the two volumes.
Drift ==
  /\ Reached("idle")
  /\ mishaps' = mishaps \cup {"drift"}
  /\ \/ db' = EmptyDb /\ UNCHANGED <<stamp, container>>
     \/ stamp' = NoPrint /\ container' = NoContainer /\ UNCHANGED db
  /\ UNCHANGED run

Work ==
  \/ BeginWarmup \/ Reuse \/ TakeStale \/ ClearAll \/ Update \/ WarmStale \/ TakeSeed \/ NoSeed
  \/ Reconcile \/ Install \/ Warm \/ SaveStamp \/ Analyse

WarmupNext == (Work /\ UNCHANGED mishaps) \/ Kill \/ Drift

WarmupSpec == WarmupInit /\ [][WarmupNext]_warmupVars

-----------------------------------------------------------------------------
(* Properties *)

WarmupPoints == {"idle", "decide", "update", "warmStale", "seed", "reconcile", "install", "warm",
                 "stamp", "ready"}
Runs == [pc : WarmupPoints, source : Sources \cup {NoPrint}, noCache : BOOLEAN, psql : BOOLEAN,
         print : Sources \cup {NoPrint}]

\* Every variable has its type.
WarmupTypeOK ==
  /\ db \in [schema : SUBSET Migrations, state : {"empty", "whole", "broken", "torn"}]
  /\ stamp \in Sources \cup {NoPrint}
  /\ container \in Sources \cup {NoContainer}
  /\ run \in Runs
  /\ mishaps \subseteq {"kill", "drift"}

\* "PHPStan cannot run without a dumped test debug container, and warming one queries Oro's
\* own tables, so an installed database is part of the requirement": whatever an earlier
\* run left behind, the tools start over a database no command left half-done, with every
\* migration of the code. A seed, a reconciliation or an install that was killed included,
\* for those are rebuilt from an empty schema; not the update that was killed and is
\* repeated over what it left, nor when the engine dropped one volume of two.
ReadyHasDatabase ==
  "drift" \notin mishaps /\ Reached("ready") /\ db.state # "torn" =>
    db.state = "whole" /\ Needs[run.source] \subseteq db.schema

\* "A stamp that merely disagrees means an install is present and only the pending
\* migrations are missing, so it is updated rather than rebuilt" (plan.go).
StampMeansInstall == "drift" \notin mishaps /\ Reached("update") => db.state = "whole"

\* PHPStan reads the container of the code it analyses, unless a warm-up was killed.
ContainerMatchesSources ==
  "kill" \notin mishaps /\ Reached("ready") => container = run.source

\* "The fingerprint that decides whether it is still valid lives inside it, so the cache
\* and the database it was built against are invalidated together" (plan.go, qaCaches):
\* wherever earlier warm-ups were killed, the container is that of the code.
FingerprintDecides == "drift" \notin mishaps /\ Reached("ready") => container = run.source
=============================================================================
