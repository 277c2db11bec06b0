---------------------------- MODULE TestDatabase ----------------------------
(***************************************************************************)
(* The pipeline's test database (plan.go, testDatabaseCommand): a ladder    *)
(* of ever more expensive ways to a migrated database, and the volume that  *)
(* keeps its result for the next run as a dump and a fingerprint stamp.     *)
(* A volume is locked while the script runs, so runs that share one take    *)
(* turns; every run starts on an empty database service.                    *)
(***************************************************************************)
EXTENDS Naturals, FiniteSets

CONSTANTS
  Sources,        \* commits, as far as composer.lock and the migration files differ
  Platform,       \* the oro/platform version each of them locks
  Vanilla,        \* the migrations OroCommerce carries on each platform
  Extra,          \* the migrations each source gets from its other dependencies
  Own,            \* the migration files each source has under src/
  TestMigration,  \* what the Tests/Functional/Environment migrations produce
  Scopes,         \* cache scopes: one volume each
  ImagePlatform,  \* the platform the runtime image's dumps were installed from
  ImageDumps,     \* which dumps that image carries
  MaxRemembered,  \* bound: preparations the engine can have remembered
  MaxMishaps      \* bound: kinds of mishaps in one history

Platforms == DOMAIN Vanilla
NoScope == "no scope"
NoPrint == "no fingerprint"
Migrations == {TestMigration} \cup (UNION {Vanilla[p] : p \in Platforms})
                \cup (UNION {Extra[s] \cup Own[s] : s \in Sources})

ASSUME TestDatabaseAssumption ==
  /\ Platform \in [Sources -> Platforms]
  /\ Vanilla \in [Platforms -> SUBSET Migrations]
  /\ Extra \in [Sources -> SUBSET Migrations] /\ Own \in [Sources -> SUBSET Migrations]
  /\ ImagePlatform \in Platforms /\ ImageDumps \subseteq {"seedTest", "seed"}
  /\ NoScope \notin Scopes /\ NoPrint \notin Sources
  /\ MaxRemembered \in Nat /\ MaxMishaps \in Nat

VARIABLES
  volume,      \* per scope: the dump and the stamp beside it
  db,          \* the database of the current run and the classes in var/cache/test
  run,         \* program point of the script, and what the run was started with
  remembered,  \* preparations the engine keeps as executed commands, PHPUnit having failed
  mishaps      \* history: what has gone wrong so far besides failing console commands

vars == <<volume, db, run, remembered, mishaps>>

Mishaps == {"fingerprint", "dump", "kill", "stub", "replay"}
Mishap(kind) ==
  /\ Cardinality(mishaps \cup {kind}) <= MaxMishaps
  /\ mishaps' = mishaps \cup {kind}

\* Every migration a database needs before the suites of s can run.
Needs(s) == Vanilla[Platform[s]] \cup Extra[s] \cup Own[s] \cup {TestMigration}

\* A dump is cut off inside the archive, or the archive is sound and holds a part of a
\* database: the pipe into gzip ended early, or the database itself was not whole.
NoDump == [kind |-> "none", schema |-> {}]
Dump(schema) == [kind |-> "whole", schema |-> schema]
DumpDb == [kind |-> IF db.whole THEN "whole" ELSE "part", schema |-> db.schema]
Torn == [kind |-> "torn", schema |-> {}]
Part == [kind |-> "part", schema |-> {}]
Dumps == [kind : {"none", "whole", "torn", "part"}, schema : SUBSET Migrations]
Databases == [schema : SUBSET Migrations, whole : BOOLEAN, classes : BOOLEAN]
EmptyDb == [schema |-> {}, whole |-> TRUE, classes |-> FALSE]
Complete(schema) == [schema |-> schema, whole |-> TRUE, classes |-> TRUE]
Broken == [db EXCEPT !.whole = FALSE, !.classes = FALSE]

Rungs == {"cached", "base", "seedTest", "seed"}
Below == [cached |-> "base", base |-> "seedTest", seedTest |-> "seed", seed |-> "install"]
NoRun == [pc |-> "idle", source |-> NoPrint, scope |-> NoScope, base |-> NoScope,
          noCache |-> FALSE, print |-> NoPrint, rung |-> "cached"]

At(point) == run.pc = point
Goto(point) == run' = [run EXCEPT !.pc = point]
\* The run is over, and its database service with it.
Over == run' = NoRun /\ db' = EmptyDb

Init ==
  /\ volume = [c \in Scopes |-> [dump |-> NoDump, stamp |-> NoPrint]]
  /\ db = EmptyDb
  /\ run = NoRun
  /\ remembered = {}
  /\ mishaps = {}

\* A run with functional tests reaches its test step: a database service without data.  The
\* engine skips a preparation it has executed on the same container before, unless
\* --no-cache makes the container differ.
Begin ==
  /\ At("idle")
  /\ \E s \in Sources, c \in Scopes, b \in Scopes \cup {NoScope}, noCache \in BOOLEAN :
       /\ b # c
       /\ run' = [NoRun EXCEPT !.source = s, !.scope = c, !.base = b, !.noCache = noCache,
                    !.pc = IF <<s, c, b>> \in remembered /\ ~noCache THEN "suites"
                                                                    ELSE "prepare"]
  /\ UNCHANGED <<volume, db, remembered, mishaps>>

\* sourceFingerprintCommand: composer.lock and the migration files under src/.
Fingerprint ==
  /\ At("prepare")
  /\ \/ run' = [run EXCEPT !.print = run.source, !.pc = "cached"] /\ UNCHANGED mishaps
     \/ Goto("cached") /\ Mishap("fingerprint")
  /\ UNCHANGED <<volume, db, remembered>>

CachedUsableM ==
  /\ run.print # NoPrint
  /\ volume[run.scope].dump # NoDump
CachedUsable ==
  /\ run.print # NoPrint
  /\ volume[run.scope].stamp = run.print
  /\ volume[run.scope].dump # NoDump

SeedTestUsableM == "seedTest" \in ImageDumps
\* seed_test_matches_the_project
SeedTestUsable == "seedTest" \in ImageDumps /\ Platform[run.source] = ImagePlatform

Usable(rung) ==
  /\ ~run.noCache
  /\ CASE rung = "cached"   -> CachedUsable
       [] rung = "base"     -> run.base # NoScope /\ volume[run.base].dump # NoDump
       [] rung = "seedTest" -> SeedTestUsable
       [] rung = "seed"     -> "seed" \in ImageDumps

DumpOf(rung) ==
  CASE rung = "cached"   -> volume[run.scope].dump
    [] rung = "base"     -> volume[run.base].dump
    [] rung = "seedTest" -> Dump(Vanilla[ImagePlatform] \cup {TestMigration})
    [] rung = "seed"     -> Dump(Vanilla[ImagePlatform])

Skip ==
  /\ run.pc \in Rungs
  /\ ~Usable(run.pc)
  /\ Goto(Below[run.pc])
  /\ UNCHANGED <<volume, db, remembered, mishaps>>

\* reset_schema, then the dump is loaded and var/cache/test removed.  A part of a database
\* loads without an error.
Restore ==
  /\ run.pc \in Rungs
  /\ Usable(run.pc)
  /\ DumpOf(run.pc).kind # "torn"
  /\ db' = [schema |-> DumpOf(run.pc).schema, whole |-> DumpOf(run.pc).kind # "part",
            classes |-> FALSE]
  /\ run' = [run EXCEPT !.rung = run.pc,
               !.pc = IF run.pc \in {"cached", "seedTest"} THEN "regenerate" ELSE "rebuild"]
  /\ UNCHANGED <<volume, remembered, mishaps>>

\* gunzip or psql fails, which no rung catches; with a torn dump gunzip always does.
RestoreFails ==
  /\ run.pc \in Rungs
  /\ Usable(run.pc)
  /\ Over
  /\ UNCHANGED <<volume, remembered, mishaps>>

\* The two warm-ups, in a condition where only the status of the second counts.  A kernel
\* can boot on the empty stubs of extend classes that were never generated.
Regenerate ==
  /\ At("regenerate")
  /\ \E generated, warmed \in BOOLEAN :
       /\ IF warmed /\ ~generated THEN Mishap("stub") ELSE UNCHANGED mishaps
       /\ db' = [db EXCEPT !.classes = generated]
       /\ Goto(CASE warmed /\ run.rung = "cached" -> "suites"
                 [] warmed /\ run.rung = "seedTest" /\ Own[run.source] = {} -> "dump"
                 [] warmed /\ run.rung = "seedTest" /\ Own[run.source] # {} -> "rebuild"
                 [] ~warmed /\ run.rung = "cached" -> "rebuild"
                 [] ~warmed /\ run.rung = "seedTest" -> "seed")
  /\ UNCHANGED <<volume, remembered>>

\* What the update leaves when it succeeds: it applies what is missing and removes nothing,
\* and a table the restored part lacks stays missing when its migration is recorded.
Migrated == [schema |-> db.schema \cup Needs(run.source), whole |-> db.whole, classes |-> TRUE]

RebuildM ==
  /\ At("rebuild")
  /\ db' \in {Migrated, Broken}
  /\ Goto(IF run.rung = "cached" THEN "suites" ELSE "dump")
  /\ UNCHANGED <<volume, remembered, mishaps>>

\* rebuild: oro:platform:update.
Rebuild ==
  /\ At("rebuild")
  /\ \/ db' = Migrated /\ Goto(IF run.rung = "cached" THEN "suites" ELSE "dump")
     \/ db' = Broken /\ Goto(Below[run.rung])
  /\ UNCHANGED <<volume, remembered, mishaps>>

\* The schema is emptied and Oro installed; a failed install is repeated once, after the
\* extend classes were generated from what it left.
Install ==
  /\ At("install") \/ At("recover")
  /\ \/ db' = Complete(Needs(run.source)) /\ Goto("dump")
     \/ At("install") /\ db' = Broken /\ Goto("recover")
     \/ At("recover") /\ Over
  /\ UNCHANGED <<volume, remembered, mishaps>>

\* save_dump, its first half: the dump is rewritten in place.
SaveDump ==
  /\ At("dump")
  /\ volume' = [volume EXCEPT ![run.scope].dump = DumpDb]
  /\ Goto("stamp")
  /\ UNCHANGED <<db, remembered, mishaps>>

\* gzip cannot write, or pg_dump stops short and gzip completes the archive all the same.
SaveDumpFails ==
  /\ At("dump")
  /\ \E left \in {Torn, Part} : volume' = [volume EXCEPT ![run.scope].dump = left]
  /\ Over
  /\ Mishap("dump")
  /\ UNCHANGED remembered

\* Its second half.
SaveStamp ==
  /\ At("stamp")
  /\ volume' = IF run.print = NoPrint THEN volume
                                      ELSE [volume EXCEPT ![run.scope].stamp = run.print]
  /\ Goto("suites")
  /\ UNCHANGED <<db, remembered, mishaps>>

\* PHPUnit ends.  When it fails, the engine has the preparation as an executed command
\* and not the suites; when it passes, it has both and a later run executes neither.
Suites ==
  /\ At("suites")
  /\ \/ UNCHANGED <<remembered, mishaps>>
     \/ /\ ~run.noCache /\ Cardinality(remembered) < MaxRemembered
        /\ remembered' = remembered \cup {<<run.source, run.scope, run.base>>}
        /\ Mishap("replay")
  /\ Over
  /\ UNCHANGED volume

\* The job is cancelled or the engine dies: a file that was being written may be left cut
\* off, and one not begun keeps what it held.
Kill ==
  /\ ~At("idle")
  /\ volume' \in {volume}
       \cup (IF At("dump") THEN {[volume EXCEPT ![run.scope].dump = Torn]} ELSE {})
       \cup (IF At("stamp") /\ run.print # NoPrint
             THEN {[volume EXCEPT ![run.scope].stamp = NoPrint]} ELSE {})
  /\ Over
  /\ Mishap("kill")
  /\ UNCHANGED remembered

Script ==
  \/ Fingerprint \/ Skip \/ Restore \/ RestoreFails \/ Regenerate \/ Rebuild \/ Install
  \/ SaveDump \/ SaveDumpFails \/ SaveStamp

Next == Begin \/ Script \/ Suites \/ Kill

Spec == Init /\ [][Next]_vars

-----------------------------------------------------------------------------
(* Properties *)

Points == Rungs \cup {"idle", "prepare", "regenerate", "rebuild", "install", "recover",
                      "dump", "stamp", "suites"}

Volumes == [Scopes -> [dump : Dumps, stamp : Sources \cup {NoPrint}]]
Runs == [pc : Points, source : Sources \cup {NoPrint}, scope : Scopes \cup {NoScope},
         base : Scopes \cup {NoScope}, noCache : BOOLEAN, print : Sources \cup {NoPrint},
         rung : Rungs]

\* Every variable has its type.
TypeOK ==
  /\ volume \in Volumes /\ db \in Databases /\ run \in Runs /\ mishaps \subseteq Mishaps
  /\ remembered \in SUBSET (Sources \X Scopes \X (Scopes \cup {NoScope}))

\* Whatever rung prepared it, PHPUnit starts on what a full install would have given at
\* least: a database no command left half-done, with every migration of the sources, and
\* the extend classes generated for it.  So it is while only console commands fail.
CacheIsTransparent ==
  mishaps = {} /\ At("suites") => /\ db.whole
                                  /\ Needs(run.source) \subseteq db.schema
                                  /\ db.classes

\* PHPUnit never starts on a database a command or a restore left half-done, even when jobs
\* are killed anywhere, fingerprints are missing, a warm-up's failure is lost or the engine
\* skips the preparation.
NeverHalfDone == "dump" \notin mishaps /\ At("suites") => db.whole

\* "The fingerprint this dump was saved under is the one the sources have now, so there is
\* nothing pending to apply": between two runs a stamp stands beside the whole dump of a
\* database that has every migration of the sources the stamp was computed from.
StampNamesItsDump ==
  mishaps \cap {"fingerprint", "dump", "kill"} = {} =>
    \A c \in Scopes :
      volume[c].stamp # NoPrint =>
        \/ run.scope = c /\ At("stamp")
        \/ /\ volume[c].dump.kind = "whole"
           /\ Needs(volume[c].stamp) \subseteq volume[c].dump.schema
=============================================================================
