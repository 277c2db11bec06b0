--------------------------- MODULE RemoteRelease ---------------------------
(***************************************************************************)
(* The stage host during releases: the tasks of the Oro recipe              *)
(* (templates/deploy/oro.php.tmpl) between the tasks of Deployer's common   *)
(* recipe, which are external and modelled from what the recipe and the     *)
(* documentation rely on.  Any task may fail, which runs oro:cleanup_failed *)
(* in separate remote commands, any of which may fail and end the clean-up; *)
(* the process may be killed anywhere, which runs nothing; an operator may  *)
(* then remove the stale lock.                                              *)
(***************************************************************************)
EXTENDS Naturals, Sequences, FiniteSets, SequencesExt

CONSTANTS
  Deploys,          \* deploy jobs; each runs one deploy after another
  Versions,         \* versions of the application
  Migrations,       \* the migrations each version carries
  SrcMigrations,    \* those that lie under src/
  OroMigrations,    \* those that lie under vendor/oro; the rest, in other packages
  Installed,        \* the version served when the model starts, or NoVersion
  NoVersion,
  Keep,             \* keep_releases
  MaxName,          \* bound on release numbers
  MaxLog,           \* bound on lines in releases_log
  RestartCommand,   \* whether the stage has a restart_command
  CurrentElsewhere, \* whether current_path lies outside deploy_path
  Faults            \* what goes wrong: setup, task, late, cleanup, kill

AllMigrations == UNION {Migrations[v] : v \in Versions}
Names == 1..MaxName
\* Before the lock; under it; after the lock was dropped; in the clean-up; the process itself.
FaultKinds == {"setup", "task", "late", "cleanup", "kill"}

ASSUME RemoteAssumption ==
  /\ Migrations \in [Versions -> SUBSET AllMigrations]
  /\ "free" \notin Deploys
  /\ NoVersion \notin Versions /\ Installed \in Versions \cup {NoVersion}
  /\ Keep \in Nat \ {0} /\ MaxName \in Nat \ {0} /\ MaxLog \in Nat
  /\ RestartCommand \in BOOLEAN /\ CurrentElsewhere \in BOOLEAN
  /\ Faults \subseteq FaultKinds

VARIABLES
  dir,      \* releases/<n>: its version and how far it has been built
  link,     \* the `release` symlink
  current,  \* the symlink the site is served from
  lock,     \* the holder of .dep/deploy.lock, "free" without the file
  log,      \* release names in .dep/releases_log, oldest first
  latest,   \* .dep/latest_release
  db,       \* migrations applied to the production database
  job,      \* per deploy: program point and the configuration Deployer keeps
  mishaps   \* history: the kinds of faults that have happened

files == <<dir, link, current, lock>>
books == <<log, latest>>
vars == <<files, books, db, job, mishaps>>

Stages == {"absent", "empty", "code", "built", "updated", "ready"}
Absent == [version |-> NoVersion, stage |-> "absent"]
NoLink == [to |-> 0, abs |-> FALSE]
Idle == [pc |-> "idle", version |-> NoVersion, name |-> 0, prev |-> 0,
         list |-> <<>>, before |-> 0]

Exists(n) == n \in Names /\ dir[n].stage # "absent"
\* A relative target is resolved against the directory the symlink was moved to.
Resolves(l) == Exists(l.to) /\ (l.abs \/ ~CurrentElsewhere)

Init ==
  /\ dir = [n \in Names |->
       IF n = 1 /\ Installed # NoVersion THEN [version |-> Installed, stage |-> "ready"]
                                         ELSE Absent]
  /\ link = NoLink
  /\ lock = "free"
  /\ IF Installed = NoVersion
       THEN current = NoLink /\ log = <<>> /\ latest = 0 /\ db = {}
       ELSE /\ current = [to |-> 1, abs |-> TRUE] /\ log = <<1>> /\ latest = 1
            /\ db = Migrations[Installed]
  /\ job = [d \in Deploys |-> Idle]
  /\ mishaps = {}

At(d, point) == job[d].pc = point
Goto(d, point) == job' = [job EXCEPT ![d].pc = point]
Mishap(kind) == kind \in Faults /\ mishaps' = mishaps \cup {kind}

\* The release container starts Deployer on the ref the pipeline built; the number of
\* releases is bounded by MaxName and MaxLog.
Begin(d) ==
  /\ At(d, "idle")
  /\ latest + Cardinality({e \in Deploys : ~At(e, "idle")}) < MaxName
  /\ Len(log) < MaxLog
  /\ \E v \in Versions :
       job' = [job EXCEPT ![d] =
         [Idle EXCEPT !.pc = "setup", !.version = v, !.before = current.to]]
  /\ UNCHANGED <<files, books, db>>

Setup(d) == At(d, "setup") /\ Goto(d, "lock") /\ UNCHANGED <<files, books, db>>

LockM(d) ==
  /\ At(d, "lock")
  /\ lock' = d
  /\ Goto(d, "release")
  /\ UNCHANGED <<dir, link, current, books, db>>

\* A second deploy leaves gracefully: Deployer runs no failure task for it.
Lock(d) ==
  /\ At(d, "lock")
  /\ IF lock = "free"
       THEN lock' = d /\ Goto(d, "release")
       ELSE Goto(d, "idle") /\ UNCHANGED lock
  /\ UNCHANGED <<dir, link, current, books, db>>

\* The entries of s that are in S, in their order (SelectSeq, as a recursive function:
\* it is proved about).
Among(s, S) ==
  LET F[i \in 0..Len(s)] ==
        IF i = 0 THEN <<>> ELSE IF s[i] \in S THEN Append(F[i - 1], s[i]) ELSE F[i - 1]
  IN  F[Len(s)]

OnDisk == {n \in Names : Exists(n)}
\* Releases the log knows and that are still on disk, newest first.
ReleasesList == Reverse(Among(log, OnDisk))

StartRelease(d) ==
  LET name == latest + 1 IN
  /\ At(d, "release")
  /\ name \in Names
  /\ ~Exists(name)
  /\ latest' = name
  /\ log' = Append(log, name)
  /\ dir' = [dir EXCEPT ![name] = [version |-> job[d].version, stage |-> "empty"]]
  /\ link' = [to |-> name, abs |-> FALSE]
  /\ job' = [job EXCEPT ![d] =
       [@ EXCEPT !.pc = "code", !.name = name, !.list = <<name>> \o ReleasesList,
                 !.prev = IF ReleasesList = <<>> THEN 0 ELSE Head(ReleasesList)]]
  /\ UNCHANGED <<current, lock, db>>

Reach(d, stage) == dir' = [dir EXCEPT ![job[d].name].stage = stage]
\* Every task works inside the release it created.
InRelease(d) == Exists(job[d].name)

UpdateCode(d) ==
  /\ At(d, "code") /\ InRelease(d)
  /\ Reach(d, "code") /\ Goto(d, "link")
  /\ UNCHANGED <<link, current, lock, books, db>>

AbsoluteLinkM(d) ==
  /\ At(d, "link") /\ Goto(d, "upload")
  /\ UNCHANGED <<files, books, db>>

AbsoluteLink(d) ==
  /\ At(d, "link")
  /\ link' = [to |-> job[d].name, abs |-> TRUE]
  /\ Goto(d, "upload")
  /\ UNCHANGED <<dir, current, lock, books, db>>

UploadArtifacts(d) ==
  /\ At(d, "upload") /\ InRelease(d)
  /\ Reach(d, "built") /\ Goto(d, "update")
  /\ UNCHANGED <<link, current, lock, books, db>>

\* The migrations oro:update can see: no package outside vendor/oro is looked at.
Compared == SrcMigrations \cup OroMigrations

\* The checksum of a release's migration files, as the set of the files it covers: the
\* vendor ones are there once the artifacts have been extracted.
Checksum(n) ==
  CASE dir[n].stage \in {"built", "updated", "ready"} -> Migrations[dir[n].version] \cap Compared
    [] dir[n].stage = "code" -> Migrations[dir[n].version] \cap SrcMigrations
    [] OTHER -> {}

HasNewMigrationsM(d) ==
  \/ ~Exists(job[d].prev)
  \/ Checksum(job[d].prev) # Checksum(job[d].name)

HasNewMigrations(d) ==
  \/ ~Resolves(current)
  \/ Checksum(current.to) # Checksum(job[d].name)

\* What oro:platform:update may have applied when it does not reach its end.
PartlyUpdated(d) ==
  {db \cup applied : applied \in SUBSET (IF At(d, "update") /\ InRelease(d) /\ HasNewMigrations(d)
                                           THEN Migrations[job[d].version] ELSE {})}

UpdateM(d) ==
  /\ At(d, "update") /\ InRelease(d)
  /\ db' = IF HasNewMigrations(d) THEN db \cup Migrations[job[d].version] ELSE db
  /\ Reach(d, "updated") /\ Goto(d, "symlink")
  /\ UNCHANGED <<link, current, lock, books>>

Update(d) ==
  /\ At(d, "update") /\ InRelease(d)
  /\ db' = IF HasNewMigrations(d) THEN db \cup Migrations[job[d].version] ELSE db
  /\ Reach(d, "updated") /\ Goto(d, "warmup")
  /\ UNCHANGED <<link, current, lock, books>>

\* assets:install and cache:warmup.
WarmUp(d) ==
  /\ At(d, "warmup") /\ InRelease(d)
  /\ Reach(d, "ready") /\ Goto(d, "symlink")
  /\ UNCHANGED <<link, current, lock, books, db>>

\* deploy:publish: the very symlink is moved, then the lock is dropped and the releases
\* beyond Keep are removed.
Symlink(d) ==
  /\ At(d, "symlink")
  /\ link # NoLink
  /\ current' = link /\ link' = NoLink
  /\ Goto(d, "unlock")
  /\ UNCHANGED <<dir, lock, books, db>>

Unlock(d) ==
  /\ At(d, "unlock")
  /\ lock' = "free"
  /\ Goto(d, "prune")
  /\ UNCHANGED <<dir, link, current, books, db>>

Prune(d) ==
  /\ At(d, "prune")
  /\ dir' = [n \in Names |->
       IF n \in ToSet(SubSeq(job[d].list, Keep + 1, Len(job[d].list))) THEN Absent ELSE dir[n]]
  /\ link' = NoLink
  /\ Goto(d, "restart")
  /\ UNCHANGED <<current, lock, books, db>>

Restart(d) ==
  /\ At(d, "restart")
  /\ Goto(d, "idle")
  /\ UNCHANGED <<files, books, db>>

-----------------------------------------------------------------------------
(* Failures *)

TaskPoints == {"release", "code", "link", "upload", "warmup", "symlink", "unlock"}

\* A remote command fails, or what the task needs is not there.
Fails(d) ==
  \/ job[d].pc \in {"setup", "lock"} /\ Mishap("setup")
  \/ job[d].pc \in TaskPoints /\ Mishap("task")
  \/ At(d, "prune") /\ Mishap("late")
  \/ RestartCommand /\ At(d, "restart") /\ Mishap("late")
  \/ At(d, "release") /\ Exists(latest + 1) /\ UNCHANGED mishaps
  \/ At(d, "symlink") /\ link = NoLink /\ UNCHANGED mishaps
  \/ job[d].pc \in {"code", "upload", "update", "warmup"} /\ ~InRelease(d) /\ UNCHANGED mishaps

\* fail('deploy', 'oro:cleanup_failed'): Deployer evaluates release_name now when no task
\* did before.
Fail(d) ==
  /\ Fails(d)
  /\ job' = [job EXCEPT ![d].pc = "repoint", ![d].name = IF @ = 0 THEN latest + 1 ELSE @]
  /\ UNCHANGED <<files, books, db>>

\* One of the update commands fails.
FailUpdate(d) ==
  /\ At(d, "update") /\ InRelease(d)
  /\ Mishap("task")
  /\ db' \in PartlyUpdated(d)
  /\ Goto(d, "repoint")
  /\ UNCHANGED <<files, books>>

Fallback(d) == IF job[d].prev # 0 THEN job[d].prev ELSE job[d].name - 1

Repoint(d) ==
  /\ At(d, "repoint")
  /\ current' = IF Exists(Fallback(d)) THEN [to |-> Fallback(d), abs |-> TRUE] ELSE current
  /\ Goto(d, "remove")
  /\ UNCHANGED <<dir, link, lock, books, db>>

RemoveReleaseM(d) == At(d, "remove") /\ Goto(d, "unmark") /\ UNCHANGED <<files, books, db>>

RemoveRelease(d) ==
  /\ At(d, "remove")
  /\ dir' = [n \in Names |-> IF n = job[d].name THEN Absent ELSE dir[n]]
  /\ Goto(d, "unmark")
  /\ UNCHANGED <<link, current, lock, books, db>>

DropMarksM(d) ==
  /\ At(d, "unmark")
  /\ link' = NoLink
  /\ Goto(d, "forget")
  /\ UNCHANGED <<dir, current, lock, books, db>>

DropMarks(d) ==
  /\ At(d, "unmark")
  /\ link' = NoLink /\ lock' = "free"
  /\ Goto(d, "forget")
  /\ UNCHANGED <<dir, current, books, db>>

Forget(d) ==
  /\ At(d, "forget")
  /\ log' = Among(log, Names \ {job[d].name})
  /\ latest' = Fallback(d)
  /\ Goto(d, "idle")
  /\ UNCHANGED <<files, db>>

\* A command of the clean-up fails and no other is run: a release that rm has begun to remove
\* is an incomplete directory, the lock may stay, and so may the books.
FailCleanUp(d) ==
  /\ Mishap("cleanup")
  /\ \/ At(d, "repoint") /\ UNCHANGED <<files, books>>
     \/ /\ At(d, "remove")
        /\ dir' \in {dir, [n \in Names |-> IF n = job[d].name /\ Exists(n)
                                            THEN [dir[n] EXCEPT !.stage = "empty"] ELSE dir[n]]}
        /\ UNCHANGED <<link, current, lock, books>>
     \/ /\ At(d, "unmark")
        /\ link' \in {link, NoLink}
        /\ UNCHANGED <<dir, current, lock, books>>
     \/ /\ At(d, "forget")
        /\ log' \in {log, Among(log, Names \ {job[d].name})}
        /\ UNCHANGED <<files, latest>>
  /\ Goto(d, "idle")
  /\ UNCHANGED db

\* The release container is killed, or the connection is lost for good.
Kill(d) ==
  /\ ~At(d, "idle")
  /\ Mishap("kill")
  /\ db' \in PartlyUpdated(d)
  /\ Goto(d, "idle")
  /\ UNCHANGED <<files, books>>

\* `dep deploy:unlock`, once the deploy that held the lock is gone.
OperatorUnlocks ==
  /\ lock \in Deploys
  /\ At(lock, "idle")
  /\ lock' = "free"
  /\ UNCHANGED <<dir, link, current, books, db, job, mishaps>>

Tasks(d) ==
  \/ Setup(d) \/ Lock(d) \/ StartRelease(d) \/ UpdateCode(d) \/ AbsoluteLink(d)
  \/ UploadArtifacts(d) \/ Update(d) \/ WarmUp(d) \/ Symlink(d) \/ Unlock(d)
  \/ Prune(d) \/ Restart(d)

CleanUp(d) == Repoint(d) \/ RemoveRelease(d) \/ DropMarks(d) \/ Forget(d)

Step(d) ==
  \/ (Tasks(d) \/ CleanUp(d)) /\ UNCHANGED mishaps
  \/ Fail(d) \/ FailUpdate(d) \/ FailCleanUp(d)

\* Nobody has to deploy again.
Rest == (\A d \in Deploys : At(d, "idle")) /\ UNCHANGED vars

Next ==
  \/ \E d \in Deploys : (Begin(d) /\ UNCHANGED mishaps) \/ Step(d) \/ Kill(d)
  \/ OperatorUnlocks
  \/ Rest

Spec == Init /\ [][Next]_vars

\* A started Deployer keeps working: SSH commands end, one way or the other.
FairSpec == Spec /\ \A d \in Deploys : WF_vars(Step(d))

-----------------------------------------------------------------------------
(* Properties *)

Points == {"idle", "setup", "lock", "prune", "restart", "repoint", "remove", "unmark", "forget",
           "update"} \cup TaskPoints

\* Every variable has its type.
TypeOK ==
  /\ dir \in [Names -> [version : Versions \cup {NoVersion}, stage : Stages]]
  /\ link \in [to : 0..MaxName, abs : BOOLEAN]
  /\ current \in [to : 0..MaxName, abs : BOOLEAN]
  /\ lock \in Deploys \cup {"free"}
  /\ log \in Seq(Names)
  /\ latest \in 0..MaxName
  /\ db \in SUBSET AllMigrations
  /\ \A d \in Deploys :
       /\ job[d].pc \in Points
       /\ job[d].version \in Versions \cup {NoVersion}
       /\ job[d].name \in 0..MaxName + 1 /\ job[d].prev \in 0..MaxName
       /\ job[d].before \in 0..MaxName /\ job[d].list \in Seq(Names)
  /\ mishaps \subseteq Faults

\* Every failed deploy was cleaned up to the end.
CleanedUp == mishaps \cap {"kill", "cleanup"} = {}

\* Deploys were killed, or failed and were cleaned up, not both: a clean-up may fall back to
\* a release that a kill or another clean-up left unfinished.
KilledOrFailed == mishaps \subseteq {"kill"} \/ CleanedUp

\* "The site is never served from a directory that is about to disappear"
\* (oro:cleanup_failed): once something was published, current leads to a directory.
SiteStaysUp == CleanedUp /\ current.to # 0 => Resolves(current)

\* The site is served from a release every task of the deploy has gone through.
ServesFinishedRelease ==
  KilledOrFailed /\ Resolves(current) => dir[current.to].stage = "ready"

Needed == Migrations[dir[current.to].version]

\* The database has every migration under src/ and vendor/oro of the code that is served,
\* although a release whose migration files look unchanged skips oro:platform:update.
SchemaCoversServedCode == KilledOrFailed /\ Resolves(current) => Needed \cap Compared \subseteq db

\* "Skipping oro:platform:update when no migrations changed" (oro:update): the database has
\* every migration of the code that is served, whatever package brings it.
SchemaCoversPackages == KilledOrFailed /\ Resolves(current) => Needed \subseteq db

\* At most one deploy works in the deploy path under the lock at a time.
Working(d) == job[d].pc \in TaskPoints \cup {"update"}
OneDeployAtATime ==
  mishaps \cap {"setup", "late"} = {} => \A d, e \in Deploys : Working(d) /\ Working(e) => d = e

\* "The recipe removes releases/<n>, points current back at the previous release"
\* (docs/deployment.md): a deploy that cleaned up leaves no directory of its own, and
\* the site on the release that was served when it began.
FailureRestoresPrevious ==
  CleanedUp => \A d \in Deploys :
    At(d, "forget") => ~Exists(job[d].name) /\ current.to = job[d].before

\* A deploy that takes the lock gives it back, whatever task fails, unless it is killed or a
\* command of its clean-up fails: then it is gone, and the lock is left.
LockIsReleased == \A d \in Deploys :
  lock = d ~> lock # d \/ (At(d, "idle") /\ ~CleanedUp)

\* "If any remote step fails, the recipe removes releases/<n>, [...] drops .dep/deploy.lock"
\* (docs/deployment.md): only a killed deploy leaves its lock behind.
NoLockLeftBehind == "kill" \notin mishaps => \A d \in Deploys : lock = d => ~At(d, "idle")
=============================================================================
