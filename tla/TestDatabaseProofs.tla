------------------------- MODULE TestDatabaseProofs -------------------------
(***************************************************************************)
(* Proofs about the test database cache, for every set of sources and       *)
(* scopes and every history of mishaps: its types, that PHPUnit never       *)
(* starts on a half-done database, and - when the image's test dump hides   *)
(* no migration - that stamps tell the truth and the cache is transparent.  *)
(***************************************************************************)
EXTENDS TestDatabase, TLAPS

\* A project the image's test dump is used for, and that ships no migration itself, gets
\* none from its other dependencies either.
NothingHidden ==
  \A s \in Sources : Platform[s] = ImagePlatform /\ Own[s] = {} => Extra[s] = {}

\* A run that is under way has its inputs, and a rung was restored where one is needed.
Underway ==
  /\ ~At("idle") => run.source \in Sources /\ run.scope \in Scopes
  /\ run.print \in {NoPrint, run.source}
  /\ At("regenerate") => run.rung \in {"cached", "seedTest"}

Typed == TypeOK /\ Underway

\* Nothing holds or hands on a part of a database unless a dump went wrong.
NoParts ==
  "dump" \notin mishaps =>
    /\ \A c \in Scopes : volume[c].dump.kind # "part"
    /\ run.pc \in {"idle", "regenerate", "rebuild", "dump", "stamp", "suites"} => db.whole
    /\ At("stamp") => volume[run.scope].dump.kind = "whole"

\* Where a run has a fingerprint, and what its schema has while the stamps can be trusted.
Printed ==
  "fingerprint" \notin mishaps /\ run.pc \in Points \ {"idle", "prepare", "suites"} =>
    run.print = run.source
Covered ==
  mishaps \cap {"fingerprint", "dump", "kill"} = {} =>
    /\ At("regenerate") /\ run.rung = "cached" => Needs(run.source) \subseteq db.schema
    /\ At("regenerate") /\ run.rung = "seedTest" =>
         /\ Platform[run.source] = ImagePlatform
         /\ Vanilla[ImagePlatform] \cup {TestMigration} \subseteq db.schema
    /\ run.pc \in {"dump", "stamp"} => Needs(run.source) \subseteq db.schema
    /\ At("stamp") => Needs(run.source) \subseteq volume[run.scope].dump.schema
    /\ At("suites") /\ "replay" \notin mishaps => Needs(run.source) \subseteq db.schema
Generated ==
  mishaps \cap {"stub", "replay"} = {} /\ run.pc \in {"dump", "stamp", "suites"} => db.classes
Remembered == remembered # {} => "replay" \in mishaps

IInv == Remembered /\ Printed /\ Covered /\ Generated /\ StampNamesItsDump

\* The migrations a source needs are migrations.
LEMMA NeedsTypes ==
  ASSUME NEW s \in Sources
  PROVE  Needs(s) \in SUBSET Migrations
<1>1. Vanilla[Platform[s]] \in SUBSET Migrations
  BY TestDatabaseAssumption DEF TestDatabaseAssumption
<1>2. Extra[s] \cup Own[s] \in SUBSET Migrations
  BY TestDatabaseAssumption DEF TestDatabaseAssumption
<1>3. TestMigration \in Migrations
  BY Zenon DEF Migrations
<1>4. QED
  BY <1>1, <1>2, <1>3 DEF Needs

\* What is initially so.
LEMMA InitEstablishes == Init => Typed /\ NoParts /\ IInv
<1> SUFFICES ASSUME Init PROVE Typed /\ NoParts /\ IInv
  OBVIOUS
<1>1. Typed
  BY TestDatabaseAssumption
     DEF TestDatabaseAssumption, Init, Typed, Underway, At, TypeOK, Volumes, Databases, Runs,
         NoRun, NoDump, Dumps, EmptyDb, Points, Rungs, Mishaps
<1>2. NoParts
  BY DEF Init, NoParts, NoRun, NoDump, EmptyDb, At
<1>3. Remembered /\ Printed /\ Covered /\ Generated
  BY DEF Init, Remembered, Printed, Covered, Generated, NoRun, At
<1>4. StampNamesItsDump
  BY DEF Init, StampNamesItsDump
<1>5. QED
  BY <1>1, <1>2, <1>3, <1>4 DEF IInv

\* The databases and dumps the script produces are databases and dumps.
LEMMA DataTypes ==
  ASSUME Typed
  PROVE  /\ EmptyDb \in Databases /\ Broken \in Databases
         /\ DumpDb \in Dumps /\ Torn \in Dumps /\ Part \in Dumps
         /\ run.source \in Sources =>
              Migrated \in Databases /\ Complete(Needs(run.source)) \in Databases
<1>1. db \in Databases
  BY DEF Typed, TypeOK
<1>2. EmptyDb \in Databases /\ Broken \in Databases
  BY <1>1 DEF EmptyDb, Broken, Databases
<1>3. DumpDb \in Dumps /\ Torn \in Dumps /\ Part \in Dumps
  BY <1>1 DEF DumpDb, Torn, Part, Dumps, Databases
<1>4. ASSUME run.source \in Sources
      PROVE  Migrated \in Databases /\ Complete(Needs(run.source)) \in Databases
  <2>1. Needs(run.source) \in SUBSET Migrations
    BY <1>4, NeedsTypes
  <2>2. QED
    BY <1>1, <2>1 DEF Migrated, Complete, Databases
<1>5. QED
  BY <1>2, <1>3, <1>4

\* Either half of save_dump leaves volumes behind.
LEMMA VolumeTypes ==
  ASSUME NEW v \in Volumes, NEW c \in Scopes, NEW d \in Dumps, NEW s \in Sources \cup {NoPrint}
  PROVE  /\ [v EXCEPT ![c].dump = d] \in Volumes
         /\ [v EXCEPT ![c].stamp = s] \in Volumes
BY DEF Volumes

\* A run that moves on keeps its inputs; one that is over is no run.
LEMMA Moves ==
  ASSUME Typed, NEW point \in Points, Goto(point)
  PROVE  /\ run' \in Runs /\ run'.pc = point
         /\ run'.source = run.source /\ run'.scope = run.scope /\ run'.base = run.base
         /\ run'.print = run.print /\ run'.rung = run.rung /\ run'.noCache = run.noCache
BY DEF Typed, TypeOK, Goto, Runs

LEMMA Ends ==
  ASSUME Over
  PROVE  /\ run' \in Runs /\ run'.pc = "idle" /\ run'.print = NoPrint
         /\ db' = EmptyDb
BY DEF Over, NoRun, Runs, Points, Rungs

\* The history only grows, by mishaps.
LEMMA MishapsGrow ==
  ASSUME mishaps \subseteq Mishaps, [Next]_vars
  PROVE  mishaps \subseteq mishaps' /\ mishaps' \subseteq Mishaps
BY DEF Next, Script, vars, Begin, Fingerprint, Skip, Restore, RestoreFails, Regenerate,
       Rebuild, Install, SaveDump, SaveDumpFails, SaveStamp, Suites, Kill, Mishap, Mishaps

\* A rung is followed by a rung or by the install.
LEMMA BelowTypes == \A r \in Rungs : Below[r] \in {"base", "seedTest", "seed", "install"}
BY DEF Rungs, Below

\* What a usable rung restores is a dump.
LEMMA DumpOfTypes ==
  ASSUME Typed, run.pc \in Rungs, Usable(run.pc)
  PROVE  DumpOf(run.pc) \in Dumps
<1>1. run.scope \in Scopes /\ run.base \in Scopes \cup {NoScope} /\ volume \in Volumes
  BY DEF Typed, TypeOK, Underway, At, Rungs, Runs
<1>2. CASE run.pc = "cached"
  BY <1>1, <1>2 DEF DumpOf, Volumes
<1>3. CASE run.pc = "base"
  <2>1. run.base \in Scopes
    BY <1>1, <1>3 DEF Usable
  <2>2. QED
    BY <1>1, <1>3, <2>1 DEF DumpOf, Volumes
<1>4. CASE run.pc \in {"seedTest", "seed"}
  <2>1. Vanilla[ImagePlatform] \in SUBSET Migrations
    BY TestDatabaseAssumption DEF TestDatabaseAssumption
  <2>2. {TestMigration} \in SUBSET Migrations
    BY Zenon DEF Migrations
  <2>3. QED
    BY <1>4, <2>1, <2>2 DEF DumpOf, Dump, Dumps
<1>5. QED
  BY <1>2, <1>3, <1>4 DEF Rungs

\* What a restored rung leaves behind.
LEMMA Restored ==
  ASSUME Typed, Restore
  PROVE  /\ run.pc \in Rungs /\ Usable(run.pc)
         /\ DumpOf(run.pc) \in Dumps /\ DumpOf(run.pc).kind # "torn"
         /\ db' \in Databases /\ db'.schema = DumpOf(run.pc).schema
         /\ db'.whole = (DumpOf(run.pc).kind # "part") /\ db'.classes = FALSE
         /\ run' \in Runs /\ run'.rung = run.pc
         /\ run'.pc = IF run.pc \in {"cached", "seedTest"} THEN "regenerate" ELSE "rebuild"
         /\ run'.source = run.source /\ run'.scope = run.scope /\ run'.print = run.print
         /\ volume' = volume /\ remembered' = remembered /\ mishaps' = mishaps
<1>1. run.pc \in Rungs /\ Usable(run.pc) /\ DumpOf(run.pc).kind # "torn"
  BY DEF Restore
<1>2. DumpOf(run.pc) \in Dumps
  BY <1>1, DumpOfTypes
<1>3. /\ db' \in Databases /\ db'.schema = DumpOf(run.pc).schema
      /\ db'.whole = (DumpOf(run.pc).kind # "part") /\ db'.classes = FALSE
  BY <1>2 DEF Restore, Dumps, Databases
<1>4. /\ run' \in Runs /\ run'.rung = run.pc
      /\ run'.pc = IF run.pc \in {"cached", "seedTest"} THEN "regenerate" ELSE "rebuild"
      /\ run'.source = run.source /\ run'.scope = run.scope /\ run'.print = run.print
  BY <1>1 DEF Restore, Typed, TypeOK, Runs, Points, Rungs
<1>5. QED
  BY <1>1, <1>2, <1>3, <1>4 DEF Restore

\* Where the two warm-ups lead.
LEMMA Regenerated ==
  ASSUME Typed, Regenerate
  PROVE  /\ run.rung \in {"cached", "seedTest"} /\ run.source \in Sources
         /\ run.scope \in Scopes
         /\ run'.pc \in {"suites", "dump", "rebuild", "seed"} /\ Goto(run'.pc)
         /\ run'.pc = "suites" => run.rung = "cached"
         /\ run'.pc = "dump" => run.rung = "seedTest" /\ Own[run.source] = {}
         /\ db' \in Databases /\ db'.schema = db.schema /\ db'.whole = db.whole
         /\ run'.pc \in {"suites", "dump"} => db'.classes \/ "stub" \in mishaps'
         /\ volume' = volume /\ remembered' = remembered
<1>1. run.rung \in {"cached", "seedTest"} /\ run.source \in Sources /\ run.scope \in Scopes
  BY DEF Regenerate, Typed, Underway, At
<1>2. PICK generated, warmed \in BOOLEAN :
       /\ IF warmed /\ ~generated THEN Mishap("stub") ELSE UNCHANGED mishaps
       /\ db' = [db EXCEPT !.classes = generated]
       /\ Goto(CASE warmed /\ run.rung = "cached" -> "suites"
                 [] warmed /\ run.rung = "seedTest" /\ Own[run.source] = {} -> "dump"
                 [] warmed /\ run.rung = "seedTest" /\ Own[run.source] # {} -> "rebuild"
                 [] ~warmed /\ run.rung = "cached" -> "rebuild"
                 [] ~warmed /\ run.rung = "seedTest" -> "seed")
  BY DEF Regenerate
<1>3. /\ run'.pc \in {"suites", "dump", "rebuild", "seed"} /\ Goto(run'.pc)
      /\ run'.pc = "suites" => run.rung = "cached" /\ warmed
      /\ run'.pc = "dump" => run.rung = "seedTest" /\ Own[run.source] = {} /\ warmed
  BY <1>1, <1>2 DEF Goto, Typed, TypeOK, Runs
<1>4. /\ db' \in Databases /\ db'.schema = db.schema /\ db'.whole = db.whole
      /\ db'.classes = generated
  BY <1>2 DEF Typed, TypeOK, Databases
<1>5. warmed /\ ~generated => "stub" \in mishaps'
  BY <1>2 DEF Mishap
<1>6. QED
  BY <1>1, <1>3, <1>4, <1>5 DEF Regenerate

\* What a run starts as.
LEMMA Begun ==
  ASSUME Begin
  PROVE  /\ run' \in Runs /\ run'.source \in Sources /\ run'.scope \in Scopes
         /\ run'.print = NoPrint /\ run'.rung = "cached" /\ run'.pc \in {"suites", "prepare"}
         /\ run'.pc = "suites" => remembered # {}
         /\ UNCHANGED <<volume, db, remembered, mishaps>>
<1>1. PICK s \in Sources, c \in Scopes, b \in Scopes \cup {NoScope}, noCache \in BOOLEAN :
       /\ b # c
       /\ run' = [NoRun EXCEPT !.source = s, !.scope = c, !.base = b, !.noCache = noCache,
                    !.pc = IF <<s, c, b>> \in remembered /\ ~noCache THEN "suites"
                                                                    ELSE "prepare"]
  BY DEF Begin
<1> DEFINE point == IF <<s, c, b>> \in remembered /\ ~noCache THEN "suites" ELSE "prepare"
<1>2. run' = [pc |-> point,
              source |-> s, scope |-> c, base |-> b, noCache |-> noCache, print |-> NoPrint,
              rung |-> "cached"]
  BY <1>1, Zenon DEF NoRun
<1>3. point \in {"suites", "prepare"} /\ (point = "suites" => remembered # {})
  OBVIOUS
<1> HIDE DEF point
<1>4. /\ run'.source \in Sources /\ run'.scope \in Scopes /\ run'.print = NoPrint
      /\ run'.rung = "cached" /\ run'.pc \in {"suites", "prepare"}
      /\ run'.pc = "suites" => remembered # {}
  BY <1>2, <1>3
<1>5. run' \in Runs
  BY <1>2, <1>3 DEF Runs, Points, Rungs
<1>6. UNCHANGED <<volume, db, remembered, mishaps>>
  BY DEF Begin
<1>7. QED
  BY <1>4, <1>5, <1>6

\* Every step keeps the types.
LEMMA TypedStep == Typed /\ [Next]_vars => Typed'
<1> SUFFICES ASSUME Typed, [Next]_vars PROVE Typed'
  OBVIOUS
<1>1. mishaps' \subseteq Mishaps
  BY MishapsGrow DEF Typed, TypeOK
<1>2. volume \in Volumes /\ db \in Databases /\ run \in Runs
      /\ remembered \in SUBSET (Sources \X Scopes \X (Scopes \cup {NoScope}))
  BY DEF Typed, TypeOK
<1>3. ASSUME volume' \in Volumes, db' \in Databases, run' \in Runs,
             remembered' = remembered, Underway'
      PROVE  Typed'
  BY <1>1, <1>2, <1>3 DEF Typed, TypeOK
<1>4. ASSUME NEW point \in Points \ {"idle", "regenerate"}, Goto(point), ~At("idle"),
             volume' \in Volumes, db' \in Databases, remembered' = remembered
      PROVE  Typed'
  <2>1. run' \in Runs /\ Underway'
    BY <1>4, Moves DEF Typed, Underway, At
  <2>2. QED
    BY <1>3, <1>4, <2>1
<1>5. ASSUME Over, volume' \in Volumes, remembered' = remembered
      PROVE  Typed'
  <2>1. run' \in Runs /\ Underway' /\ db' \in Databases
    BY <1>5, Ends, DataTypes DEF Underway, At
  <2>2. QED
    BY <1>3, <1>5, <2>1
<1>6. CASE Begin
  <2>1. run' \in Runs /\ Underway' /\ UNCHANGED <<volume, db, remembered>>
    BY <1>6, Begun DEF Underway, At
  <2>2. QED
    BY <1>2, <1>3, <2>1
<1>7. CASE Fingerprint
  <2>1. CASE Goto("cached")
    BY <1>2, <1>4, <1>7, <2>1 DEF Fingerprint, At, Points, Rungs
  <2>2. CASE run' = [run EXCEPT !.print = run.source, !.pc = "cached"]
    <3>1. run' \in Runs /\ Underway'
      BY <1>2, <1>7, <2>2 DEF Typed, Underway, Fingerprint, At, Runs, Points, Rungs
    <3>2. QED
      BY <1>2, <1>3, <1>7, <3>1 DEF Fingerprint
  <2>3. QED
    BY <1>7, <2>1, <2>2 DEF Fingerprint
<1>8. CASE Skip
  <2>1. Below[run.pc] \in Points \ {"idle", "regenerate"} /\ ~At("idle")
    BY <1>8, BelowTypes DEF Skip, Points, Rungs, At
  <2>2. QED
    BY <1>2, <1>4, <1>8, <2>1 DEF Skip
<1>9. CASE Restore
  <2>1. Underway'
    BY <1>9, Restored DEF Typed, Underway, At, Rungs
  <2>2. QED
    BY <1>2, <1>3, <1>9, <2>1, Restored
<1>10. CASE RestoreFails
  BY <1>2, <1>5, <1>10 DEF RestoreFails
<1>11. CASE Regenerate
  <2>1. run'.pc \in Points \ {"idle", "regenerate"} /\ ~At("idle")
    BY <1>11, Regenerated DEF Regenerate, At, Points, Rungs
  <2>2. QED
    BY <1>2, <1>4, <1>11, <2>1, Regenerated
<1>12. CASE Rebuild
  <2>1. run.source \in Sources /\ ~At("idle") /\ run.rung \in Rungs
    BY <1>2, <1>12 DEF Rebuild, Typed, Underway, At, Runs
  <2>2. Migrated \in Databases /\ Broken \in Databases
    BY <2>1, DataTypes
  <2>3. Below[run.rung] \in Points \ {"idle", "regenerate"}
    BY <2>1, BelowTypes DEF Points, Rungs
  <2>4. QED
    BY <1>2, <1>4, <1>12, <2>1, <2>2, <2>3 DEF Rebuild, Points
<1>13. CASE Install
  <2>1. run.source \in Sources /\ ~At("idle")
    BY <1>13 DEF Install, Typed, Underway, At
  <2>2. Complete(Needs(run.source)) \in Databases /\ Broken \in Databases
    BY <2>1, DataTypes
  <2>3. CASE Over
    BY <1>2, <1>5, <1>13, <2>3 DEF Install
  <2>4. CASE Goto("recover") /\ db' = Broken
    BY <1>2, <1>4, <1>13, <2>1, <2>2, <2>4 DEF Install, Points
  <2>5. CASE Goto("dump") /\ db' = Complete(Needs(run.source))
    BY <1>2, <1>4, <1>13, <2>1, <2>2, <2>5 DEF Install, Points
  <2>6. QED
    BY <1>13, <2>3, <2>4, <2>5 DEF Install
<1>14. CASE SaveDump
  <2>1. run.scope \in Scopes /\ ~At("idle")
    BY <1>14 DEF SaveDump, Typed, Underway, At
  <2>2. volume' \in Volumes
    BY <1>2, <1>14, <2>1, DataTypes, VolumeTypes DEF SaveDump
  <2>3. QED
    BY <1>2, <1>4, <1>14, <2>1, <2>2 DEF SaveDump, Points
<1>15. CASE SaveDumpFails
  <2>1. run.scope \in Scopes
    BY <1>15 DEF SaveDumpFails, Typed, Underway, At
  <2>2. PICK left \in Dumps : volume' = [volume EXCEPT ![run.scope].dump = left]
    BY <1>15, DataTypes DEF SaveDumpFails
  <2>3. volume' \in Volumes
    <3>1. PICK s \in Sources \cup {NoPrint} : TRUE
      OBVIOUS
    <3>2. QED
      BY <1>2, <2>1, <2>2, <3>1, VolumeTypes
  <2>4. QED
    BY <1>5, <1>15, <2>3 DEF SaveDumpFails
<1>16. CASE SaveStamp
  <2>1. run.scope \in Scopes /\ run.print \in Sources \cup {NoPrint} /\ ~At("idle")
    BY <1>2, <1>16 DEF SaveStamp, Typed, Underway, At, Runs
  <2>2. volume' \in Volumes
    <3>1. NoDump \in Dumps
      BY DEF NoDump, Dumps
    <3>2. [volume EXCEPT ![run.scope].stamp = run.print] \in Volumes
      BY <1>2, <2>1, <3>1, VolumeTypes
    <3>3. QED
      BY <1>2, <1>16, <3>2 DEF SaveStamp
  <2>3. QED
    BY <1>2, <1>4, <1>16, <2>1, <2>2 DEF SaveStamp, Points
<1>17. CASE Suites
  <2>1. CASE remembered' = remembered
    BY <1>2, <1>5, <1>17, <2>1 DEF Suites
  <2>2. CASE remembered' = remembered \cup {<<run.source, run.scope, run.base>>}
    <3>1. run.source \in Sources /\ run.scope \in Scopes /\ run.base \in Scopes \cup {NoScope}
      BY <1>2, <1>17 DEF Suites, Typed, Underway, At, Runs
    <3>2. run' \in Runs /\ Underway' /\ db' \in Databases
      BY <1>17, Ends, DataTypes DEF Suites, Underway, At
    <3>3. QED
      BY <1>1, <1>2, <1>17, <2>2, <3>1, <3>2 DEF Suites, Typed, TypeOK
  <2>3. QED
    BY <1>17, <2>1, <2>2 DEF Suites
<1>18. CASE Kill
  <2>1. run.scope \in Scopes
    BY <1>18 DEF Kill, Typed, Underway
  <2>2. [volume EXCEPT ![run.scope].dump = Torn] \in Volumes
    BY <1>2, <2>1, DataTypes, VolumeTypes
  <2>3. [volume EXCEPT ![run.scope].stamp = NoPrint] \in Volumes
    <3>1. NoDump \in Dumps /\ NoPrint \in Sources \cup {NoPrint}
      BY DEF NoDump, Dumps
    <3>2. QED
      BY <1>2, <2>1, <3>1, VolumeTypes
  <2>4. volume' \in Volumes
    BY <1>2, <1>18, <2>2, <2>3 DEF Kill
  <2>5. QED
    BY <1>5, <1>18, <2>4 DEF Kill
<1>19. CASE UNCHANGED vars
  BY <1>2, <1>3, <1>19 DEF vars, Typed, Underway, At
<1>20. QED
  BY <1>6, <1>7, <1>8, <1>9, <1>10, <1>11, <1>12, <1>13, <1>14, <1>15, <1>16, <1>17, <1>18,
     <1>19 DEF Next, Script

\* No step makes a part of a database pass for a whole one, unless a dump goes wrong.
LEMMA NoPartsStep == Typed /\ NoParts /\ [Next]_vars => NoParts'
<1> SUFFICES ASSUME Typed, NoParts, [Next]_vars, "dump" \notin mishaps' PROVE NoParts'
  BY DEF NoParts
<1>1. mishaps \subseteq mishaps'
  BY MishapsGrow DEF Typed, TypeOK
<1>2. /\ \A c \in Scopes : volume[c].dump.kind # "part"
      /\ run.pc \in {"idle", "regenerate", "rebuild", "dump", "stamp", "suites"} => db.whole
      /\ At("stamp") => volume[run.scope].dump.kind = "whole"
  BY <1>1 DEF NoParts
<1>3. volume \in Volumes /\ db \in Databases /\ run \in Runs
  BY DEF Typed, TypeOK
<1>4. ASSUME Over, \A c \in Scopes : volume'[c].dump.kind # "part"
      PROVE  NoParts'
  BY <1>4, Ends DEF NoParts, At, EmptyDb
<1>5. ASSUME run'.pc \notin {"idle", "regenerate", "rebuild", "dump", "stamp", "suites"},
             volume' = volume
      PROVE  NoParts'
  BY <1>2, <1>5 DEF NoParts, At
<1>6. ASSUME run'.pc # "stamp", volume' = volume, db'.whole
      PROVE  NoParts'
  BY <1>2, <1>6 DEF NoParts, At
<1>7. CASE Begin
  <2>1. CASE run'.pc = "prepare"
    BY <1>5, <1>7, <2>1, Begun
  <2>2. CASE run'.pc = "suites"
    BY <1>2, <1>6, <1>7, <2>2, Begun DEF Begin, At
  <2>3. QED
    BY <1>7, <2>1, <2>2, Begun
<1>8. CASE Fingerprint
  BY <1>3, <1>5, <1>8, Moves DEF Fingerprint, Goto, Runs, Points, Rungs
<1>9. CASE Skip
  BY <1>5, <1>9, Moves, BelowTypes DEF Skip, Points, Rungs
<1>10. CASE Restore
  <2>1. run.scope \in Scopes /\ run.base \in Scopes \cup {NoScope}
    BY <1>3, <1>10, Restored DEF Typed, Underway, At, Rungs, Runs
  <2>2. DumpOf(run.pc).kind # "part"
    <3>1. CASE run.pc = "cached"
      BY <1>2, <2>1, <3>1 DEF DumpOf
    <3>2. CASE run.pc = "base"
      BY <1>2, <1>10, <2>1, <3>2, Restored DEF Usable, DumpOf
    <3>3. CASE run.pc \in {"seedTest", "seed"}
      BY <3>3 DEF DumpOf, Dump
    <3>4. QED
      BY <1>10, <3>1, <3>2, <3>3, Restored DEF Rungs
  <2>3. QED
    BY <1>6, <1>10, <2>2, Restored
<1>11. CASE RestoreFails
  BY <1>2, <1>4, <1>11 DEF RestoreFails
<1>12. CASE Regenerate
  BY <1>2, <1>6, <1>12, Regenerated DEF Regenerate, At
<1>13. CASE Rebuild
  <2>1. run.rung \in Rungs /\ db.whole /\ volume' = volume
    BY <1>2, <1>3, <1>13 DEF Rebuild, At, Runs
  <2>2. CASE db' = Migrated /\ Goto(IF run.rung = "cached" THEN "suites" ELSE "dump")
    BY <1>6, <2>1, <2>2, Moves DEF Migrated, Points
  <2>3. CASE Goto(Below[run.rung])
    BY <1>5, <2>1, <2>3, Moves, BelowTypes DEF Points, Rungs
  <2>4. QED
    BY <1>13, <2>2, <2>3 DEF Rebuild
<1>14. CASE Install
  <2>1. volume' = volume
    BY <1>14 DEF Install
  <2>2. CASE Over
    BY <1>2, <1>4, <2>1, <2>2
  <2>3. CASE Goto("recover")
    BY <1>5, <2>1, <2>3, Moves DEF Points
  <2>4. CASE Goto("dump") /\ db' = Complete(Needs(run.source))
    BY <1>6, <2>1, <2>4, Moves DEF Complete, Points
  <2>5. QED
    BY <1>14, <2>2, <2>3, <2>4 DEF Install
<1>15. CASE SaveDump
  <2>1. run.scope \in Scopes /\ db.whole /\ db' = db
    BY <1>2, <1>15 DEF SaveDump, Typed, Underway, At
  <2>2. volume' = [volume EXCEPT ![run.scope].dump = DumpDb] /\ DumpDb.kind = "whole"
    BY <1>15, <2>1 DEF SaveDump, DumpDb
  <2>3. run'.pc = "stamp" /\ run'.scope = run.scope
    BY <1>15, Moves DEF SaveDump, Points
  <2>4. /\ volume'[run.scope].dump.kind = "whole"
        /\ \A c \in Scopes \ {run.scope} : volume'[c] = volume[c]
    BY <1>3, <2>1, <2>2 DEF Volumes
  <2>5. QED
    BY <1>2, <2>1, <2>3, <2>4 DEF NoParts, At
<1>16. CASE SaveDumpFails
  BY <1>16 DEF SaveDumpFails, Mishap
<1>17. CASE SaveStamp
  <2>1. run.scope \in Scopes /\ db.whole /\ db' = db /\ run'.pc = "suites"
    BY <1>2, <1>17, Moves DEF SaveStamp, Typed, Underway, At, Points
  <2>2. \A c \in Scopes : volume'[c].dump = volume[c].dump
    BY <1>3, <1>17, <2>1 DEF SaveStamp, Volumes
  <2>3. QED
    BY <1>2, <2>1, <2>2 DEF NoParts, At
<1>18. CASE Suites
  BY <1>2, <1>4, <1>18 DEF Suites
<1>19. CASE Kill
  <2>1. run.scope \in Scopes
    BY <1>19 DEF Kill, Typed, Underway
  <2>2. \A c \in Scopes : volume'[c].dump \in {volume[c].dump, Torn}
    BY <1>3, <1>19, <2>1 DEF Kill, Volumes
  <2>3. \A c \in Scopes : volume'[c].dump.kind # "part"
    BY <1>2, <2>2 DEF Torn
  <2>4. QED
    BY <1>4, <1>19, <2>3 DEF Kill
<1>20. CASE UNCHANGED vars
  BY <1>2, <1>20 DEF vars, NoParts, At
<1>21. QED
  BY <1>7, <1>8, <1>9, <1>10, <1>11, <1>12, <1>13, <1>14, <1>15, <1>16, <1>17, <1>18, <1>19,
     <1>20 DEF Next, Script

\* No step makes a stamp lie or a schema incomplete that was trusted before.
LEMMA TruthStep == NothingHidden /\ Typed /\ NoParts /\ IInv /\ [Next]_vars => IInv'
<1> SUFFICES ASSUME NothingHidden, Typed, NoParts, IInv, [Next]_vars PROVE IInv'
  OBVIOUS
<1>1. mishaps \subseteq mishaps'
  BY MishapsGrow DEF Typed, TypeOK
<1>2. volume \in Volumes /\ db \in Databases /\ run \in Runs
  BY DEF Typed, TypeOK
<1>3. Remembered'
  BY <1>1 DEF IInv, Next, Script, vars, Begin, Fingerprint, Skip, Restore, RestoreFails,
       Regenerate, Rebuild, Install, SaveDump, SaveDumpFails, SaveStamp, Suites, Kill, Mishap,
       Remembered
<1>4. ASSUME volume' = volume, ~At("stamp")
      PROVE  StampNamesItsDump'
  BY <1>1, <1>4 DEF IInv, StampNamesItsDump, At, Needs
<1>5. ASSUME run'.pc = "idle", StampNamesItsDump'
      PROVE  IInv'
  BY <1>3, <1>5 DEF IInv, Printed, Covered, Generated, At, Points
<1>6. ASSUME NEW point \in Points \ {"idle", "prepare", "regenerate", "dump", "stamp", "suites"},
             Goto(point), volume' = volume, ~At("stamp"), Printed'
      PROVE  IInv'
  BY <1>3, <1>4, <1>6, Moves DEF IInv, Covered, Generated, At
<1>7. ASSUME NEW point \in Points \ {"idle", "prepare", "suites"}, Goto(point),
             run.pc \in Points \ {"idle", "prepare", "suites"}
      PROVE  Printed'
  BY <1>1, <1>7, Moves DEF IInv, Printed
<1>8. CASE Begin
  <2>1. Printed' /\ Covered' /\ Generated'
    BY <1>8, Begun DEF IInv, Remembered, Printed, Covered, Generated, At
  <2>2. QED
    BY <1>3, <1>4, <1>8, <2>1, Begun DEF Begin, IInv, At
<1>9. CASE Fingerprint
  <2>1. run'.pc = "cached" /\ volume' = volume /\ ~At("stamp")
    BY <1>2, <1>9 DEF Fingerprint, Goto, Runs, At
  <2>2. "fingerprint" \in mishaps' \/ run'.print = run'.source
    BY <1>2, <1>9 DEF Fingerprint, Mishap, Runs
  <2>3. Printed' /\ Covered' /\ Generated'
    BY <2>1, <2>2 DEF Printed, Covered, Generated, At
  <2>4. QED
    BY <1>3, <1>4, <2>1, <2>3 DEF IInv
<1>10. CASE Skip
  <2>1. run.pc \in Rungs /\ Below[run.pc] \in {"base", "seedTest", "seed", "install"}
    BY <1>10, BelowTypes DEF Skip
  <2>2. QED
    BY <1>6, <1>7, <1>10, <2>1 DEF Skip, Points, Rungs, At
<1>11. CASE Restore
  <2>1. Printed'
    BY <1>2, <1>11, Restored DEF IInv, Printed, Points, Rungs
  <2>2. ASSUME mishaps' \cap {"fingerprint", "dump", "kill"} = {}, run.pc = "cached"
        PROVE  Needs(run.source) \subseteq DumpOf(run.pc).schema
    <3>1. run.scope \in Scopes /\ run.source \in Sources
      BY <2>2 DEF Typed, Underway, At
    <3>2. run.print = run.source /\ volume[run.scope].stamp = run.print /\ run.print # NoPrint
      BY <1>11, <2>2, Restored DEF IInv, Printed, Points, Usable, CachedUsable, Rungs
    <3>3. Needs(run.source) \subseteq volume[run.scope].dump.schema
      BY <1>11, <2>2, <3>1, <3>2, Restored DEF IInv, StampNamesItsDump, At
    <3>4. QED
      BY <2>2, <3>3 DEF DumpOf
  <2>3. run.pc = "seedTest" =>
          /\ Platform[run.source] = ImagePlatform
          /\ Vanilla[ImagePlatform] \cup {TestMigration} \subseteq DumpOf(run.pc).schema
    BY <1>11, Restored DEF Usable, SeedTestUsable, DumpOf, Dump
  <2>4. Covered'
    BY <1>11, <2>2, <2>3, Restored DEF Covered, At, Needs
  <2>5. Generated'
    BY <1>11, Restored DEF Generated
  <2>6. QED
    BY <1>3, <1>4, <1>11, <2>1, <2>4, <2>5, Restored DEF IInv, At, Rungs
<1>12. CASE RestoreFails
  BY <1>4, <1>5, <1>12, Ends DEF RestoreFails, At, Rungs
<1>13. CASE Regenerate
  <2>1. /\ run'.pc \in {"suites", "dump", "rebuild", "seed"} /\ Goto(run'.pc)
        /\ volume' = volume /\ ~At("stamp") /\ At("regenerate")
        /\ run'.source = run.source /\ run'.print = run.print /\ db'.schema = db.schema
    BY <1>13, Regenerated, Moves DEF Regenerate, At, Points, Rungs
  <2>2. Printed'
    BY <1>1, <2>1 DEF IInv, Printed, At, Points, Rungs
  <2>3. ASSUME mishaps' \cap {"fingerprint", "dump", "kill"} = {}, run'.pc \in {"dump", "suites"}
        PROVE  Needs(run.source) \subseteq db.schema
    <3>1. mishaps \cap {"fingerprint", "dump", "kill"} = {}
      BY <1>1, <2>3
    <3>2. CASE run.rung = "cached"
      BY <2>1, <3>1, <3>2 DEF IInv, Covered
    <3>3. CASE run.rung = "seedTest"
      <4>1. Own[run.source] = {} /\ run.source \in Sources
        BY <1>13, <2>3, <3>3, Regenerated
      <4>2. /\ Platform[run.source] = ImagePlatform
            /\ Vanilla[ImagePlatform] \cup {TestMigration} \subseteq db.schema
        BY <2>1, <3>1, <3>3 DEF IInv, Covered
      <4>3. QED
        BY <4>1, <4>2 DEF NothingHidden, Needs
    <3>4. QED
      BY <1>13, <3>2, <3>3, Regenerated
  <2>4. Covered'
    BY <2>1, <2>3 DEF Covered, At, Needs
  <2>5. Generated'
    BY <1>13, <2>1, Regenerated DEF Generated
  <2>6. QED
    BY <1>3, <1>4, <2>1, <2>2, <2>4, <2>5 DEF IInv
<1>14. CASE Rebuild
  <2>1. run.rung \in Rungs /\ volume' = volume /\ At("rebuild") /\ mishaps' = mishaps
    BY <1>2, <1>14 DEF Rebuild, Runs
  <2>2. CASE db' = Migrated /\ Goto(IF run.rung = "cached" THEN "suites" ELSE "dump")
    <3>1. /\ run'.pc \in {"suites", "dump"} /\ run'.source = run.source
          /\ run'.print = run.print
      BY <2>2, Moves DEF Points
    <3>2. Printed' /\ Covered' /\ Generated'
      BY <2>1, <2>2, <3>1
         DEF IInv, Printed, Covered, Generated, Migrated, At, Points, Rungs, Needs
    <3>3. QED
      BY <1>3, <1>4, <2>1, <3>2 DEF IInv, At
  <2>3. CASE Goto(Below[run.rung])
    <3>1. Below[run.rung] \in {"base", "seedTest", "seed", "install"}
      BY <2>1, BelowTypes
    <3>2. QED
      BY <1>6, <1>7, <2>1, <2>3, <3>1 DEF At, Points, Rungs
  <2>4. QED
    BY <1>14, <2>2, <2>3 DEF Rebuild
<1>15. CASE Install
  <2>1. volume' = volume /\ mishaps' = mishaps /\ run.pc \in {"install", "recover"}
    BY <1>15 DEF Install, At
  <2>2. CASE Over
    BY <1>4, <1>5, <2>1, <2>2, Ends DEF At
  <2>3. CASE Goto("recover")
    BY <1>6, <1>7, <2>1, <2>3 DEF Points, At
  <2>4. CASE db' = Complete(Needs(run.source)) /\ Goto("dump")
    <3>1. run'.pc = "dump" /\ run'.source = run.source /\ run'.print = run.print
      BY <2>4, Moves DEF Points
    <3>2. Printed' /\ Covered' /\ Generated'
      BY <2>1, <2>4, <3>1
         DEF IInv, Printed, Covered, Generated, Complete, At, Points, Needs
    <3>3. QED
      BY <1>3, <1>4, <2>1, <3>2 DEF IInv, At
  <2>5. QED
    BY <1>15, <2>2, <2>3, <2>4 DEF Install
<1>16. CASE SaveDump
  <2>1. /\ run.scope \in Scopes /\ run'.pc = "stamp" /\ run'.scope = run.scope
        /\ run'.source = run.source /\ run'.print = run.print
        /\ db' = db /\ mishaps' = mishaps /\ At("dump")
    BY <1>16, Moves DEF SaveDump, Typed, Underway, At, Points
  <2>2. /\ volume'[run.scope].dump.schema = db.schema
        /\ \A c \in Scopes \ {run.scope} : volume'[c] = volume[c]
    BY <1>2, <1>16, <2>1 DEF SaveDump, DumpDb, Volumes
  <2>3. Printed' /\ Covered' /\ Generated'
    BY <2>1, <2>2 DEF IInv, Printed, Covered, Generated, At, Points, Needs
  <2>4. StampNamesItsDump'
    BY <2>1, <2>2 DEF IInv, StampNamesItsDump, At, Needs
  <2>5. QED
    BY <1>3, <2>3, <2>4 DEF IInv
<1>17. CASE SaveDumpFails
  BY <1>5, <1>17, Ends DEF SaveDumpFails, Mishap, StampNamesItsDump
<1>18. CASE SaveStamp
  <2>1. /\ run.scope \in Scopes /\ run.source \in Sources /\ run'.pc = "suites"
        /\ run'.source = run.source /\ db' = db /\ mishaps' = mishaps /\ At("stamp")
    BY <1>18, Moves DEF SaveStamp, Typed, Underway, At, Points
  <2>2. Printed' /\ Covered' /\ Generated'
    BY <2>1 DEF IInv, Printed, Covered, Generated, At, Needs
  <2>3. ASSUME mishaps' \cap {"fingerprint", "dump", "kill"} = {}, NEW c \in Scopes,
               volume'[c].stamp # NoPrint
        PROVE  /\ volume'[c].dump.kind = "whole"
               /\ Needs(volume'[c].stamp) \subseteq volume'[c].dump.schema
    <3>1. run.print = run.source /\ run.print # NoPrint
      BY <2>1, <2>3, TestDatabaseAssumption DEF IInv, Printed, At, Points, TestDatabaseAssumption
    <3>2. volume' = [volume EXCEPT ![run.scope].stamp = run.source]
      BY <1>18, <3>1 DEF SaveStamp
    <3>3. CASE c = run.scope
      <4>1. volume'[c].stamp = run.source /\ volume'[c].dump = volume[c].dump
        BY <1>2, <2>1, <3>2, <3>3 DEF Volumes
      <4>2. Needs(run.source) \subseteq volume[c].dump.schema
        BY <2>1, <2>3, <3>3 DEF IInv, Covered
      <4>3. volume[c].dump.kind = "whole"
        BY <2>1, <2>3, <3>3 DEF NoParts
      <4>4. QED
        BY <4>1, <4>2, <4>3
    <3>4. CASE c # run.scope
      BY <1>2, <2>1, <2>3, <3>2, <3>4 DEF IInv, StampNamesItsDump, Volumes
    <3>5. QED
      BY <3>3, <3>4
  <2>4. QED
    BY <1>3, <2>2, <2>3 DEF IInv, StampNamesItsDump, Needs
<1>19. CASE Suites
  BY <1>4, <1>5, <1>19, Ends DEF Suites, At
<1>20. CASE Kill
  BY <1>5, <1>20, Ends DEF Kill, Mishap, StampNamesItsDump
<1>21. CASE UNCHANGED vars
  BY <1>21 DEF vars, IInv, Remembered, Printed, Covered, Generated, StampNamesItsDump, At, Needs
<1>22. QED
  BY <1>8, <1>9, <1>10, <1>11, <1>12, <1>13, <1>14, <1>15, <1>16, <1>17, <1>18, <1>19, <1>20,
     <1>21 DEF Next, Script

\* Every reachable state is well typed.
THEOREM CacheTypes == Spec => []TypeOK
<1>1. Spec => []Typed
  BY InitEstablishes, TypedStep, PTL DEF Spec
<1>2. Typed => TypeOK
  BY DEF Typed
<1>3. QED
  BY <1>1, <1>2, PTL

\* PHPUnit never starts on a half-done database unless writing a dump has failed before.
THEOREM SuitesNeverHalfDone == Spec => []NeverHalfDone
<1>1. Typed /\ NoParts /\ [Next]_vars => (Typed /\ NoParts)'
  BY TypedStep, NoPartsStep
<1>2. Typed /\ NoParts => NeverHalfDone
  BY DEF NoParts, NeverHalfDone, At
<1>3. QED
  BY InitEstablishes, <1>1, <1>2, PTL DEF Spec

\* Stamps tell the truth unless a fingerprint or a dump failed or a job was killed.
THEOREM TruthfulStamps ==
  ASSUME NothingHidden
  PROVE  Spec => []StampNamesItsDump
<1>1. Typed /\ NoParts /\ IInv /\ [Next]_vars => (Typed /\ NoParts /\ IInv)'
  BY TypedStep, NoPartsStep, TruthStep
<1>2. IInv => StampNamesItsDump
  BY DEF IInv
<1>3. QED
  BY InitEstablishes, <1>1, <1>2, PTL DEF Spec

\* Whatever rung prepared it, PHPUnit starts on a database that is complete for its sources,
\* with the classes generated for it, as long as only console commands fail.
THEOREM TransparentCache ==
  ASSUME NothingHidden
  PROVE  Spec => []CacheIsTransparent
<1>1. Typed /\ NoParts /\ IInv /\ [Next]_vars => (Typed /\ NoParts /\ IInv)'
  BY TypedStep, NoPartsStep, TruthStep
<1>2. NoParts /\ IInv => CacheIsTransparent
  BY DEF NoParts, IInv, Covered, Generated, CacheIsTransparent, At
<1>3. QED
  BY InitEstablishes, <1>1, <1>2, PTL DEF Spec
=============================================================================
