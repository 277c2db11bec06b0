# A TLA+ verification of Orobox

Orobox is a Go command line tool around OroCommerce: a local Docker stack, a QA toolchain, and a
CI/deploy pipeline that runs on the Dagger engine and ends on a stage host driven by Deployer. This
directory holds TLA+ models of its stateful parts, the TLC configurations that check them on small
instances, and TLAPS proofs of their main properties for every instance. `PROJECT.json` maps every
definition to the source lines it models and lists the runs, the mutants that show each property can
fail, the hazards and the theorems.

## 1. The system

| Component | State it keeps | Operations | Talks to |
| --- | --- | --- | --- |
| pipeline run (`internal/pipeline/run.go`) | containers of the steps, the errgroup, exported files | resolve source, layers, artifacts, QA ∥ tests, export, release | engine (SDK calls), host disk, stage host |
| plan and deploy command (`plan.go`, `cmd/deploy.go`) | flags, stage, `Plan` | refuse, prompt, resolve ref and source | the run |
| engine watch and progress (`engine_watch.go`, `progress.go`, `errors.go`) | the tail of the engine's log, spans, readers, one goroutine per running command | write, drain, finish, closing block | engine log (concurrent writer), terminal |
| stage host (`templates/deploy/oro.php.tmpl`) | releases, symlinks, lock, release books, production database | deploy tasks, `oro:cleanup_failed` | Deployer (external), other deploys |
| pipeline test database (`plan.go`, `testDatabaseCommand`) | per scope a volume: dump and fingerprint stamp | ladder of restores, install, dump, stamp, PHPUnit | engine cache, image dumps |
| QA warm-up (`plan.go`, `qaWarmupCommand`) | Postgres volume, `var/cache` volume with stamp and container | reuse, stale update, full install | later runs on the same volumes |
| qa and test commands, reports, hook (`cmd/qa.go`, `cmd/test.go`, `qa_agent.go`, `internal/qatools`, `internal/report`) | raw report directory, baseline, `phpstan.neon`, the staged files | `qa`, `test` in plain, `--report`, `--agent`, `--staged`, `--generate-baseline` mode; the pre-commit hook | the run, compose, git |
| compose project (`cmd/up.go`, `internal/docker/compose.go`) | generated files, running containers | regenerate, up, down, reload, commands in services | Docker, `.orobox.yaml` |
| compose overrides (`internal/docker/override.go`, `internal/composeoverride`) | the user's two override files, their copies | resolve, prune, analyze | compose project |
| generated environment (`internal/docker/envmerge.go`) | the project's `.env`, the generated one | merge | compose and Symfony read the result |
| database backup, restore, init (`cmd/db.go`, `cmd/init.go`) | dump file, database, paused services, sources | backup, restore, install | the stack |
| self-update, local images (`cmd/self-update.go`, `customimage.go`) | the binary and its temporary file, pulled and built images and their labels | download, rename, pull, hash, build | GitHub, Docker |
| extend command and recipes (`cmd/extend.go`, `internal/scaffold/recipes.go`, `extend.go`, `internal/yamledit`) | the project's compose, config, `.env`, Dockerfile, `.gitignore` | `extend image`, `compose`, `compose --local`, `add` | the files the other commands read |
| configuration, other scaffolding, terminal output, wrappers, agent, certificates, custom commands, Xdebug, update notice | project files, host | load, write once, print, forward | all commands |

Which behaviours are hard:

- *Interleaving*: QA and tests run concurrently and cancel each other; each running command has a
  goroutine that reads a log the engine writes concurrently with the result; several CI jobs deploy
  the same stage; several terminals work on one checkout, none of whose files is locked.
- *Partial failure and crashes*: every Deployer task is a separate remote command, and its failure
  handler is several more; warm-up and test-database scripts may be killed between any two commands
  and leave their volumes to the next run; the engine may drop a cache volume.
- *Stale state*: fingerprints and labels stand for databases, dumps, containers and images made by
  earlier runs; report files outlive the command that wrote them; generated files outlive the
  configuration they were rendered from; a branch moves while a run is under way.
- *Ordering*: the gate before the release; the stamp after what it vouches for; the log that comes
  after the result it describes; YAML documents and environment lines that override one another, read
  by two programs with different rules.

What makes each component correct is stated beside its module below; the hazards the properties aim
at are listed, at their lines, in `PROJECT.json`.

## 2. Modules

| Module | What it models | Composed with |
| --- | --- | --- |
| `ReleaseGate` | abstract: a set of required checks, each with one verdict; the host is touched only after all passed and the payload is exported | |
| `Pipeline` | `runDeployCommand` / `qa` / `test` → plan → `Run` | implements `ReleaseGate` |
| `RemoteRelease` | the deploy path of a stage under one or more deploy jobs | |
| `TestDatabase` | the ladder of `testDatabaseCommand` over its volumes | |
| `QaWarmup` | `qaWarmupCommand` over its two volumes | |
| `EngineWatch` | log buffer, spans, readers, tasks | |
| `ComposeStack` | regeneration of the compose project and its containers, several terminals | takes the override's copy as a whole from what `Overrides` details |
| `Overrides` | the two override files through `Resolve`, `Prune`, `Analyze`, and what compose makes of the copies | |
| `DatabaseOps` | `db backup`, `db restore` and the installation of `init` | |
| `LocalImages` | self-update, pulled images, the project's labelled layer | |
| `QaRun` | `orobox qa`, `orobox test`, their report files and the pre-commit hook | |
| `EnvMerge` | `MergeEnv` and the two readers of its result, as operators | |
| `ProjectFiles` | `orobox extend` and the files it edits, and `up`'s `.env` | extends `EnvMerge` |
| `MC*` | the finite instances for TLC | |
| `*Proofs` | the theorems | extend their module; `PipelineProofs` also holds those of `EngineWatch`, `QaProofs` those of `QaRun` and `QaWarmup`, `ServicesProofs` those of `LocalImages` and `Overrides` |

Definitions whose names end in `M` are the plausible bugs used as mutants; no specification uses them.

### Pipeline

State: the invocation, the resolved plan, the main goroutine's program point `pc`, per step the
status and number of executed commands, the errgroup (`returned`, `groupErr`), report-mode
violations, exported files, what has been put on the host, the outcome. Actions: `RefuseInvocation`,
`ResolveDeploy`/`ResolveChecks`, the prompt, `Prepare` (connection, layer), `ResolveSource`, the
steps (`StartCommand`, `PassCommand`, `FailCommand`, `EndStep`), the group (`CancelCommand`,
`GroupReturn`, `Wait`), the exports, `PrepareRelease`, the remote checkout, and `Push` from outside.
What a step's commands do is abstracted to whether they pass; which step runs, on which container
and after what is not.

Properties: the host is touched only after every required check passed without a swallowed violation
and the artifacts are on disk; the error reported is that of the check that failed and not of the one
it took down; no step ever starts from the nil container it was declared with, for any combination
of skips; a job that builds its own checkout releases that commit; a failing check ends the run
although the other one hangs.

### RemoteRelease

State: release directories and how far each is built, the `release` and `current` symlinks, the
lock file, `releases_log`, `latest_release`, the migrations applied to the production database, and
each deploy's program point with the configuration Deployer keeps in memory. The Oro tasks come from
the recipe; Deployer's own (`deploy:setup`, `lock`, `release`, `update_code`, `symlink`, `unlock`,
`cleanup`) are external and modelled from what the recipe relies on. Any task may fail and start the
clean-up, whose remote commands are separate steps (`Repoint`, `RemoveRelease`, `DropMarks`,
`Forget`), each of which may fail and end it (`FailCleanUp`); a deploy may be killed anywhere and an
operator may remove the stale lock. A version's migrations lie under `src`, in `vendor/oro` or in
another package; the checksum covers the first two (`Compared`), the update applies all.

Properties: the served symlink never dangles and leads to a finished release; the database has every
migration under `src` and `vendor/oro` of the served code, even when an update is skipped because the
checksums agree; a failure restores what was served; deploys exclude each other; the lock is given
back, unless a deploy is killed or a command of its clean-up fails.

### TestDatabase

State: per scope a dump (none, whole, torn, or a sound archive of part of a database) and a stamp;
the run's database and generated classes; the run's program point and inputs; what the engine
remembers of executed preparations (a preparation whose PHPUnit failed is replayed, not rerun).
Actions follow the script: restore a rung, regenerate and update, rebuild, install, dump, stamp, and
`Suites`. Mishaps besides failing console commands: a missing fingerprint, a failing dump, a killed
job, a lost warm-up failure, an engine replay.

Properties: PHPUnit starts on a complete database whatever rung made it (`CacheIsTransparent`),
never on a half-done one (`NeverHalfDone`); a stamp stands only beside a whole dump with every
migration of its sources.

### QaWarmup

State: the database volume, the stamp and the container on the cache volume, the run. Actions: reuse,
the stale path (drop the container, update, warm, stamp), the full path (seed or install, reconcile,
warm, stamp), kill, loss of an idle volume.

A platform update that is killed leaves the database torn under the stamp it had, and the next run
updates over it, with either outcome (`Migrated`).

Properties: the tools start over a whole database with every migration of the code, kills included,
but for a database torn by a killed update; they read the container of the code, lost volumes
included.

### EngineWatch

State: what the engine does with a command and how much of it is in the log; the unread tail of the log
and whether its first line is cut; per operation a span (description, lines, status); per command a
reader (span, index), a task, lines drained but not printed, lines shown, the closing block. `Matching`
says in which commands' renderings the text looked for is found: a text may be contained in another
command's without the reverse. A poll of the watch (`Looks`/`Look`) folds the whole unread log, trims,
rebases and binds in one step, as the code does under the watch's mutex; printing is a step of its own.
The engine writes at any time, before or after the SDK returns the result. A cut line may parse as
nothing, as itself, or with what is left of an id.

Properties: no line is printed twice or out of order, by one task or by two; a command closed with
timings only has shown every line, unless a buffer overran or the log was late; an answered command is
always closed.

### ComposeStack

State: `.orobox.yaml` (domains, php ini), the project's ini file and override, the generated files,
the containers with the configuration they were made from and what they have read since, and per
terminal a command. Every command regenerates file by file (`syncPhpIni`, `writeNginxConf`,
`writeComposeFile`, `writeComposeOverrides`) and then runs compose (`Up`, `Down`,
`EnsureServicesRunning`, `Exec`); only `up` reloads nginx. Each may be killed between any two steps,
containers are restarted in place, the developer edits.

Properties: an `up` that succeeded undisturbed has brought the containers to the project
(`UpBringsTheProject`; `unseen` marks a regenerated nginx.conf nobody has reloaded yet); compose never
runs on an override that is gone or broken (`NoStaleOverride`); a container can be restarted in place
whatever the configuration became since it was made (`RestartsInPlace`).

### Overrides

State: the two files as sequences of YAML documents, the copies per mode, the errors, what `Analyze`
says. A service's entry has image, `extends`, build (text, mapping, alias, anchor, reset), a mount, a
host path, profiles and a url. `drop`, `writeOrRemove`, `Ends` follow the code through both files and
both modes. What compose makes of documents in a directory (`Service`) is external.

Properties: run over the copies in the internal directory, compose makes of each service what it
would make of the user's files in the project directory (`MeansWhatTheFilesSay`, an abstract meaning
the detailed rewriting has to preserve); no copy holds a service compose rejects
(`ComposeAccepts`); the urls listed are those of the services `up` starts (`UrlsAreServed`).

### DatabaseOps

State: database, dump file, sources, schema level of the code, running services, and per terminal the
command with the services it found and those it resumes. Actions are the compose commands of backup,
restore and installation in order; each may fail, with the deferred resume, or be killed.

Properties: a restore that reports success brings the whole dump under the schema of the code and the
urls of the project, unless a failure it only warns about happened (`RestoreBringsTheDump`); a
restore, failed or not, hands back the kernels it found running (`StackAsFound`); a torn file under
the dump's name is one being written or left by a kill (`TornMeansKilled`).

### LocalImages

State: the newest release, image and build context; inodes behind the binary's name and its temporary
name; pulled base, layer with label, what the stack runs. Self-update writes in two halves, renames,
pulls; a command that starts containers inspects the base, hashes the inputs, builds, starts. Kills,
prunes, publications and edits interleave.

Properties: the installed binary is whole at every moment unless two updates overlapped
(`BinaryIsWhole`); an undisturbed command runs the layer of the current inputs and leaves a label
with which the next does not rebuild (`UpRunsTheLayer`).

### QaRun

State: violations in the working tree and in the index per tool, baseline and `phpstan.neon`, raw
report directory of each command, merged reports, the running command. Three tools stand for the
seven: one never narrowed and with a baseline, one fixer, one that writes its own report file. Actions
follow both scripts on both engines, the merge, agent mode, the baseline and the hook. A tool is clean,
leaves findings, has rewritten what it found, has stopped on errors, died, or could not be started.

Properties: exit code 0 means every chosen tool ran and left nothing, whatever the directory held
before (`ExitZeroMeansPassed`); in agent mode it hides no finding and no tool that died, and errors
only of a fixer in fix mode (`AgentHidesNoFinding`); a merged report holds the
findings of every chosen tool (`ReportHoldsTheFindings`); a baseline run that succeeds takes effect
(`BaselineTakesEffect`); a commit the hook lets through holds no finding of its tools
(`CommitIsChecked`, for files staged as they are in the tree).

### EnvMerge and ProjectFiles

`EnvMerge` translates `MergeEnv` on assignments whose values are literals and references, and the two
readers: in order (Symfony's Dotenv) and whole (compose). `Meant` is the reference definition.
`ProjectFiles` models `extend`: the plan of a recipe over four files, the checks, the writes in their
order with `O_EXCL` for new files, `extend image`, `compose`, `compose --local`, and `up` rendering
the environment. The developer edits, a second terminal runs the same commands, any write fails.

Properties: a refused command has written nothing (`RefusedChangesNothing`); an undisturbed command
that reports success did the whole job, whatever an earlier one left half-done
(`DoneMeansInEffect`); no command takes an entry of the project away but those `--force` replaces
(`ProjectKeepsItsOwn`); the generated environment reads the same both ways and as the project means
it, for `Orderly` project files (`EnvMeansTheSame`).

## 3. Runs

| Run | Question | Bounds |
| --- | --- | --- |
| `MCPipeline` | all properties of a run, the refinement of the gate | two commits, every deploy flag combination from a terminal and two kinds of CI job, report mode, 2 commands per check and release |
| `MCRemoteRelease` | one job, any number of deploys in succession, failures before, under and after the lock, kills | three versions, one with a further migration of the project and one with a migration of another package, release numbers ≤ 4, log ≤ 5 lines, `keep_releases` 2, `current_path` elsewhere, a restart command |
| `MCRemoteConcurrent` | two jobs exclude each other and give the lock back | numbers ≤ 3, log ≤ 3, failures of tasks and of the clean-up |
| `MCTestDatabase` | three commits (vanilla, own migration, next platform) on two scopes and a base | one remembered preparation, one kind of mishap per history |
| `MCQaWarmup` | three commits, one of which replaced a migration; failures, kills and lost volumes | none beyond the sets |
| `MCEngineWatch` | two concurrent commands with the same text, one of which writes two lines | spans of 1 line, 2 unread log entries, the log overruns once |
| `MCComposeStack` | three commands of two terminals, kills, restarts, an edit | two domains, two inis, one override, 3 commands, 1 edit |
| `MCOverrides` | every combination of entries within the families build, start-up and mounts | three services, up to two documents in a file, 1 edit |
| `MCDatabaseOps` | two commands of two terminals, failures, kills, an event | two kernels, two contents, 2 commands, 1 event |
| `MCLocalImages` | four commands of two terminals, kills, publications, edits, prunes | 2 versions of everything, 4 commands |
| `MCQaRun` | two commands out of fourteen command lines, an edit or a staging | 2 commands, 1 edit |
| `MCProjectFiles` | two commands of two terminals over 78 projects, an edit, failing writes | two recipes, 2 commands, 1 edit |

Why the bounds are enough. *Pipeline* has no unbounded data besides the commits, and the properties
compare at most two. *RemoteRelease* needs a release that is served, one that is being built, one left
by a failure or kill and a number reused after it: four numbers; its log needs one entry more so that a
re-run number is listed twice. Clean-ups fail in `MCRemoteConcurrent` alone: the properties of
`MCRemoteRelease` speak of histories in which none did. *TestDatabase* needs a source a cached dump
matches, one it misses and one the image's platform misses; a base scope needs a second volume. One kind
of mishap at a time keeps the run within minutes; the theorems cover all combinations. *EngineWatch*
needs two readers with the same key, a span that overflows by one and a log that overflows by one; more
lines repeat the same trimming. *ComposeStack* needs a command that leaves its files behind (killed),
one that works in between, and an `up` that has to cope: three. *Overrides*: services interact only
through aliases within a document and through the merge of documents, and keys only within a family; a
second file, a second document and a second service exercise each. *DatabaseOps* and *ProjectFiles* need
one command that fails or is killed and one after or beside it. *LocalImages* needs a killed update, its
rerun and an `up` between a hash and a build, with room for one more. *QaRun* needs a run that leaves
reports and one that may read them. Each passing property is shown able to fail by a mutant of a
modelled definition under the run's own configuration.

Deadlock is checked in the runs where the program has no reason to stop: a `Rest` (or `Returned`) step
says when it may, and runs of the scripts may always begin again. `MCComposeStack`, `MCDatabaseOps`,
`MCLocalImages`, `MCQaRun` and `MCProjectFiles` bound the commands started and end when these are used
up, which is why their configurations switch the check off; a command that could not go on would have to be
told from one that is done, and none of them waits for anything.

The type invariants of `Pipeline`, `RemoteRelease`, `TestDatabase`, `QaWarmup`, `EngineWatch`,
`ComposeStack`, `DatabaseOps`, `LocalImages`, `QaRun` and `ProjectFiles` are theorems. `Overrides` has
none; what its proofs need of the files and of the state is in `Sources` and `CopiesInv`
(`ServicesProofs`).

## 4. Fairness

- `Pipeline!FairSpec`: weak fairness of the goroutines only (the Go scheduler). A command handed to
  the engine may never end, and nobody pushes. `FailureEndsTheRun` holds because the shared context
  takes the other command down.
- `RemoteRelease!FairSpec`: a started Deployer keeps working, that is, its SSH commands end in
  success or failure. No fairness for starting deploys, kills, or the operator. `LockIsReleased` says
  that whoever takes the lock gives it back; once a command of some clean-up has failed or a deploy was
  killed, a job that is over may have left it.
- `EngineWatch!FairWatchSpec`: a task's goroutine and its closing are scheduled, and the bounded wait for
  the cache status (two seconds of wall clock) ends. The engine owes nothing: not a line, not a
  status. `AnsweredCommandsClose` says that again and again no answered command waits to be closed: a task
  never returns to a point before, so each that is answered is closed.

The commands of the other modules are short sequences that wait for nobody; they promise nothing that
must eventually happen, and their specifications state no fairness.

## 5. Proofs

TLAPS checks, for every value of the constants that satisfies the module's named assumption:

| Module | Theorem | Statement |
| --- | --- | --- |
| `PipelineProofs` | `TypeCorrect`, `ReleaseGated`, `BlameIsRight` | `Spec => []TypeOK`, `[]ReleaseOnlyAfterChecks`, `[]BlamesTheRealFailure` |
| | `LayersAreBuilt`, `PinnedReleases` | `[]BuiltOnALayer`, `[]PinnedReleaseMatchesBuild` |
| | `PipelineImplementsGate` | `Spec => ImplementsGate`, step by step |
| | `WatchTypeCorrect`, `LinesPrintedOnce`, `EveryLineShown` | `WatchSpec => []WatchTypeOK`, `[]PrintedOnce`, `[]NothingLost` |
| `RemoteReleaseProofs` | `TypeCorrect`, `DeploysExclude` | `[]TypeOK`, `[]OneDeployAtATime` |
| | `SiteStaysUpHolds`, `FinishedReleaseServed`, `SchemaCovered`, `FailureRestores` | under `OneJob` and `InService`: `[]SiteStaysUp`, `[]ServesFinishedRelease`, `[]SchemaCoversServedCode`, `[]FailureRestoresPrevious` |
| `TestDatabaseProofs` | `CacheTypes`, `SuitesNeverHalfDone` | `[]TypeOK`, `[]NeverHalfDone` |
| | `TruthfulStamps`, `TransparentCache` | under `NothingHidden`: `[]StampNamesItsDump`, `[]CacheIsTransparent` |
| `ComposeStackProofs` | `TypeCorrect`, `NoStaleOverrideHolds`, `RestartsInPlaceHolds`, `UpBringsTheProjectHolds` | `[]TypeOK`, `[]NoStaleOverride`, `[]RestartsInPlace`, `[]UpBringsTheProject` |
| `DatabaseOpsProofs` | `TypeCorrect`, `TornFilesAreKilledBackups`, `StackIsHandedBack`, `RestoresBringTheDump` | `[]TypeOK`, `[]TornMeansKilled`, `[]StackAsFound`, `[]RestoreBringsTheDump` |
| `ServicesProofs` | `TypeCorrect`, `BinaryStaysWhole`, `UpRunsTheLayerHolds` | `Spec => []TypeOK`, `[]BinaryIsWhole`, `[]UpRunsTheLayer` |
| | `CopiesMeanTheFiles`, `CopiesAreAccepted`, `UrlsServed` | `OverridesSpec => []MeansWhatTheFilesSay`, `[]ComposeAccepts`, `[]UrlsAreServed` |
| `QaProofs` | `TypeCorrect`, `ExitZeroHolds`, `AgentHolds`, `BaselineHolds` | `Spec => []TypeOK`, `[]ExitZeroMeansPassed`, `[]AgentHidesNoFinding`, `[]BaselineTakesEffect` |
| | `ReportHolds`, `CommitHolds` | the action properties `ReportHoldsTheFindings`, `CommitIsChecked` |
| | `QaTypes`, `AnalysisHasDatabase`, `AnalysisReadsItsContainer` | `[]WarmupTypeOK`, `[]ReadyHasDatabase`, `[]ContainerMatchesSources` of the warm-up |
| `ProjectFilesProofs` | `TypeCorrect`, `RefusalsLeaveTheProject`, `SuccessIsInEffect` | `[]TypeOK`, `[]RefusedChangesNothing`, `[]DoneMeansInEffect` |
| | `ProjectWins` | the action property `ProjectKeepsItsOwn` |

The assumptions on the constants say what the sets are; these say something of the code as well.
`LocalImages` has finitely many terminals, because its inodes are counted from theirs. In `QaRun`,
`orobox test` has no tools to choose, no baseline and no staged files (`cmd/test.go` declares no such
flags), and the hook runs `qa --staged` (`templates/qa/pre-commit.tmpl`). In `ProjectFiles` what the
developer writes is a file the parser reads, no edit makes a symlink and a file that is not there holds
nothing (`DiskAssumption`). In `Overrides` a file is broken or a sequence of documents in which an
anchor is written once and what an alias refers to is there, as YAML demands (`IsOverride`); that a
document anchors at most one build mapping and one volume is the module's abstraction. Most of the
inductive invariants were checked with TLC on the runs' instances before they were proved.

*Pipeline.* The gate is not inductive: at the moment the release starts nothing in its statement says
why the checks have passed. `IInv` adds what is true at every point of the run: nothing has happened
yet before the steps (`NothingYet`), the group's kept error belongs to a failed check and a cancelled
check implies such an error (`GroupInv`), violations are swallowed only in report mode, which never
releases (`ReportInv`), program points from the artifact export on imply that the checks passed
(`ReleaseInv`), and outcomes agree with statuses (`OutcomeInv`). The refinement uses the same
invariant: verdicts are final because a step's final status is never left. `LayerInv` reads the layers
off the program point: whoever is behind the development dependencies has them, if the plan needs them,
and so on up to the container each step starts from. `PinInv` keeps the ref of the plan and
what was built at the job's own checkout through all that happens before the release reads them.

*RemoteRelease.* `LockInv`: whoever works, or cleans up before dropping the marks, holds the lock; it
is kept as long as tasks fail only under the lock, whatever is killed and whichever command of a
clean-up fails. Failures before and after the lock break it (they run a clean-up that removes another's
lock), which is why the property has that premise. The theorem holds for any number of jobs.

What is served is proved for one job after another (`OneJob`) on a stage that is in service and keeps a
release to return to (`InService`: a first release is `Installed`, `keep_releases` is not 1). Without
either half TLC refutes all four properties or, with two jobs, all but `SchemaCoversServedCode` (section
6). `DeployInv` says that the release books only grow and bound the directories (`Booked`), that every
release which went through the update has those of its migrations in the database which the checksum
covers (`Covered`), that `current` is absolute and leads to a finished release (`Served`), how far the
running deploy's release is built at each of its points (`Own`), and, until a deploy is killed or a
command of a clean-up fails, that the release the clean-up would compute is the one that was served and
is still there (`Restorable`). The last is the core of it: the recipe finds its fallback in
`previous_release` or by counting down, and that this is the release served before rests on the books
being in order. `Among`, the filter of the release log, is a recursive function, and what it keeps
(`AmongKeeps`) is proved by induction on the length through the least element of a set of numbers, which
well-foundedness of `<` on `Nat` provides.

*TestDatabase.* `NoParts` says that without a failed dump nothing holds or hands on part of a
database. For the stamps, the invariant relates the engine's memory, the fingerprint of the run, the
schema of the current database at each program point and the classes to the sources (`Remembered`,
`Printed`, `Covered`, `Generated`). The assumption `NothingHidden` (a commit on the image's platform
that has no migrations of its own has none from other dependencies either) is exactly what
`MCTestDatabaseVendor` shows the code takes for granted.

*QaWarmup.* Until a volume is lost, the database under a stamp has every migration of the stamp's source
and is whole or torn by a killed update (`Standing`), and each point of the script has established what
its commands leave (`Backed`): a seed, an install or a reconciliation that was killed has left no stamp,
and what it left is dropped. Until a run is killed, a container beside a stamp is that of the stamp
(`Matched`).

*ComposeStack.* Each property speaks of an undisturbed command, and each step of another terminal
ends that. `Undisturbed` therefore says for each point of such a command what the steps behind it have
established: the ini and nginx.conf of the configuration it loaded, the compose file that mounts them,
the copy of the override. Three parts hold whoever interferes: an ini file, once some container mounts
it, is never absent again (`IniThere`), a PHP container reads what its label says unless the ini was
edited while it was being made (`ReadsItsLabel`), and a web container that has been told everything
serves the nginx.conf on disk (`WebFresh`).

*DatabaseOps.* `TornMeansKilled` is inductive given that a command is at a point of its own kind
(`OnItsWay`). `Restoring` gives for each point of an undisturbed restore the kernels that run or are
due to be resumed (`Handling`) and how much of the dump, the urls and the level the database has
(`Loading`); it survives other terminals because they end the premise.

*LocalImages.* `BinaryInv`: until two updates met, at most one writes, into an inode behind the
temporary name that is not the binary's (`Apart`), whose first half is there before its second and
which is whole when it is renamed (`Written`). For the layer, versions only grow: a label is the hash
of inputs that are not newer than those there are, and what docker built under it is not older
(`Overtaken`). So a label which equals the current inputs vouches for a layer made of them, which is
what an undisturbed command relies on when it skips the build.

*QaRun.* The exit code is a claim about tools, made from files that other commands may have written.
`Gathered` ties the two: while the script runs, the report directory (the pipeline's own on the Dagger
engine) holds for each tool that has run what that tool did, and the status 0 means that all of them
passed. `Judged` carries this past the verdict, in agent mode but for tools that could not start and the
errors of a fixer that was allowed to rewrite, `Suite` says the same of PHPUnit, `Included` of the
baseline, `Located` which command lines get where, and `Looked` that until somebody edits, a hook's
tools look at what is staged. The last needs that a hook is a staged and so a check-only compose run: in
fix mode a tool would change the files it has looked at.

*EngineWatch.* Every line is in one place at a time, and in order: in the log, in the span of its
operation, with the reader that drained it, or shown (`LinesInv`). A poll folds the unread log over the
spans; the fold is a recursive function, and that it keeps the order, what trimming takes from the front
and where the readers then stand are proved by induction over it, through the least element. Two readers
never hold one span, because a poll binds a reader only to a span nobody has. For `NothingLost` the
invariant counts: until something was trimmed unread or came late, what is shown, drained, in the span
and still in the log is together what the command wrote (`ContentInv`), an answered command's output is
in the log (`ReturnedInv`), and a span is that of its reader's command while no other started command
has a rendering in which its text is found (`OriginInv`).

*ProjectFiles.* `RefusedChangesNothing` needs that every check of a command stands before its first
write and that what was checked stays writable until then (`Safe`, `Checked`, and `Bare` for a command
that has not written). For `DoneMeansInEffect`, each point of an undisturbed command has achieved what
the steps behind it promise, recipe by recipe (`Achieves`): a recipe is in effect when its entries are
there, whoever wrote them, which is why a run after one that failed half-way completes it. For
`ProjectKeepsItsOwn`, whatever a command is going to write contains what the file held when the command
read it (`Keeping`), edits since then excepted. The selection of recipes is a recursive function and is
proved by induction on its length.

*Overrides.* Both meanings are compared document by document. `Corresponds(P, W, before)` says that the
documents `P` of a copy speak of the same services as the documents `W` of the file without what prune
drops, that each entry says the same (`SameEntry`, `SameMount`), its paths rewritten, and that the
context of a build is the file's, or the default, which goes exactly to the first document that gives
a service a build, counting the files before (`Defaults`, `Fresh`). `Resolve` and `Prune` establish it
for one file (`FileCorresponds`); two files joined correspond when what the first one builds is known to
the second (`JoinedCorresponds`). From it `ServiceKept` follows: of the builds that survive a reset the
last that gives a context decides on both sides, and when none does the default at the first of them is
the directory compose would have taken. `ComposeAccepts` uses that what survives pruning is either known
or built or has an image in the same file (`StandsAlone`). For `UrlsAreServed`, the verdict on a
service's profiles over two files is the later one that says something (`SaidTogether`), which is what
the merge of the analyses computes (`TwoAnalyses`). `CopiesInv` ties this to the run: as long as no file was
refused, the copies on disk are those of the files as they are, resolved after what the files before
build and pruned by what they have.

Only model-checked: the liveness properties `FailureEndsTheRun`, `LockIsReleased` and
`AnsweredCommandsClose`, which are beyond this prover, and `EnvMeansTheSame`, where two readers of an
environment file of any length have to agree, which is an induction over the data. It is also not true
of every template: `MergeEnv` stops after eight rounds, so a chain of more references than that would
keep a stale value, and the theorem would have to assume a bound on the chains of the template.

## 6. Where the code deviates

### Refuted claims

Each property below states what a comment or a document of the repository says, and TLC refutes it in
the configuration named, which `tlc -config <cfg> <module>` reruns. None is among the runs of
`PROJECT.json`; the properties that are checked there carry the premise that leaves the case out.

| Configuration (module) | Property | Quotation | What happens |
| --- | --- | --- | --- |
| `MCPipelineMovingRef` (`MCPipeline`) | `ReleaseMatchesBuild` | `internal/config/deploy.go:47-49`: "so the uploaded artifacts can never belong to a different commit than the deployed code" | the build resolves the ref once (`run.go:344-349`), Deployer resolves it again minutes later: a push in between releases one commit with the artifacts of another |
| `MCPipelinePrompt` (`MCPipeline`) | `UnansweredMeansNoRelease` | `cmd/deploy.go:130-132`: "An unanswered release prompt means no release." | without a terminal the question is skipped and the release goes on |
| `MCRemoteHandover` (`MCRemoteRelease`) | `SiteStaysUp`, two jobs | `oro.php.tmpl:197-198`: the site is "never served from a directory that is about to disappear" | the clean-up drops the lock (210) before it rewrites the release books (214-218): the deploy that starts in between is deleted under the site by a later one |
| `MCRemotePackages` (`MCRemoteRelease`) | `SchemaCoversPackages` | `oro.php.tmpl:148`: "skipping oro:platform:update when no migrations changed" | the checksum finds migrations under `src` and `vendor/oro` only (92, as `docs/deployment.md:115` says): when a release brings a migration of another package alone, the update is skipped and the served code lacks it |
| `MCRemoteLeftLock` (`MCRemoteRelease`) | `NoLockLeftBehind` | `docs/deployment.md:197`: "If any remote step fails, the recipe ... drops `.dep/deploy.lock`" | the commands of the clean-up before the removal of the lock (205-209) can fail like any other; Deployer runs nothing after them and the lock stays |
| `MCTestDatabaseVendor` (`MCTestDatabase`) | `CacheIsTransparent` | `plan.go:1168-1169`: "A project that ships migrations of its own still needs them applied" | only `find src` is consulted: migrations of other dependencies are missing, and the incomplete dump is cached |
| `MCQaInterrupted` (`MCQaWarmup`) | `FingerprintDecides` | `plan.go:622-624`: cache and database "are invalidated together" | a warm-up killed between `cache:warmup` and its stamp leaves the new container under the old fingerprint |
| `MCQaTorn` (`MCQaWarmup`) | `StampMeansInstall` | `plan.go:643-644`: "A stamp that merely disagrees means an install is present and only the pending migrations are missing" | a platform update killed half-way leaves its database under the old stamp; the next run takes it for an install and updates over it (710-716) instead of rebuilding |
| `MCEngineWatchSwap` (`MCEngineWatch`) | `OwnLinesOnly` | `engine_watch.go:51-52`: "two concurrent steps never consume each other's lines" | the QA and the test step begin with the same command, and `findSpan` takes the first match |
| `MCDatabaseOpsCheck` (`MCDatabaseOps`) | `ExistingProjectPreserved` | `cmd/init.go:172-174`: "an existing project checkout ... is preserved unless the user opts in" | any error of the one-off container reads as "no composer.json": the clone is copied over the checkout and `oro:install` resets the database unasked |
| `MCQaRunAgent` (`MCQaRun`) | `AgentFailsWhenAToolCouldNotRun` | `docs/qa.md:112-115`: exit code 1 when "findings remain, or a tool could not run" | a tool whose set-up line fails opens no report file, and agent mode reads only those: exit code 0 |
| `MCQaRunErrors` (`MCQaRun`) | `AgentReportsErrors` | `docs/qa.md:112-115`: exit code 1 when "findings remain, or a tool could not run", 0 although there are fixes | Rector's report lists the files it could not process beside those it rewrote (`report/rector.go:85-97`), and in fix mode agent mode counts all it lists as fixed (`cmd/qa_agent.go:59-66`): exit code 0 over errors |
| `MCProjectFilesEnv` (`MCProjectFiles`) | `EnvAlwaysMeansTheSame` | `envmerge.go:9-27`: the file has to mean the same read in order or whole | a generated key that uses a project key which itself follows a generated one, a forward reference, and a key assigned twice: the superseded assignment is appended again and wins |

### Behaviours behind the premises

- *RemoteRelease.* A failure before `deploy:lock` or after `deploy:unlock` runs the clean-up, which
  removes the lock of whoever holds it (`OneDeployAtATime`: premise on `setup` and `late`). A clean-up
  may fall back to a release a killed deploy left unfinished, and the migration comparison may compare
  with it (`KilledOrFailed`). A command of the clean-up that fails ends it where it is (`CleanedUp`): the
  lock may stay, and so may the lines of the books, so that a later deploy gets the number a second time,
  `deploy:cleanup` counts a release twice and removes the one before, and the next failure has nothing to
  fall back to. Migrations outside `src` and `vendor/oro` are not compared (`SchemaCoversServedCode`
  speaks of `Compared`). On a first deploy a failing restart removes the only release; the runs
  start from a stage in service (`Installed`).
- *TestDatabase.* A stamp stays under a new dump when a run has no fingerprint or is killed between
  dump and stamp; `pg_dump` ending early leaves a sound archive of part of a database
  (`StampNamesItsDump`, `NeverHalfDone`). A preparation is replayed over an empty database service
  when PHPUnit failed before and nothing else changed; a failure of the first of two commands inside
  an `if` is lost (`CacheIsTransparent`: `replay`, `stub`).
- *QaWarmup.* When the engine drops one of the two volumes and not the other, the stamp vouches for a
  database that is gone (`ReadyHasDatabase`: `drift`). What a killed update has torn is updated again,
  and whether that carries out the migration it was killed in is left open (`ReadyHasDatabase`: `torn`).
- *EngineWatch.* When the log lags behind the SDK's answer, the tail of a command's output is neither
  streamed nor printed, because something has been streamed already (`NothingLost`: `late`). A command
  whose text is also found in the rendering of another started command may be bound to that one's
  output (`Unique`).
- *ComposeStack.* A command other than `up` that regenerates nginx.conf leaves nobody to reload it, and
  so does an `up` that dies before its reload (`cmd/up.go:49-51`): `unseen`. An ini edited while its
  container is being made runs under the old label until the next edit: `again`. `clean` and
  `up --clean` leave the volume of the test database.
- *DatabaseOps.* `psql` runs the dump without `ON_ERROR_STOP` (`cmd/db.go:245`), the errors of clearing
  the schema and of the resume are warnings (120-122, 181-183): `excused`. Commands of two terminals
  are not kept apart: `alone`. A killed backup leaves a torn file where a whole dump was. A failed backup
  removes its file; that this removal may fail as well, which leaves the torn file, is not modelled.
- *LocalImages.* Two self-updates write the same temporary file and the second renames what the first
  is still writing (`overlap`). A self-update interrupted after the rename never pulls the images: the
  rerun returns early. Base and context are hashed before `docker build` reads them: an image pulled or
  a file edited in between is labelled as what it is not (`alone`).
- *Overrides.* A default context goes into a build mapping in place: when that mapping is written at its
  anchor, every alias gets it too (`resolve.go:376-391`, against `resolve_test.go:610`):
  `AliasOfAnEntry`. After a reset of a build (or with `extends` after or beside a mapping without a
  context) compose's own default applies in the internal directory: `Resets`, `ExtendsLate`. `profiles: []`
  and a short-syntax mount below a directory with a colon are not modelled beyond the refusal.
- *QaRun.* The hook names the staged files but the tools read the working tree: `whole`. Agent mode does
  not count what Rector reports in fix mode, neither what it has rewritten nor the errors it stopped on
  (`AgentHidesNoFinding`: the outcome "errors" of a fixer in fix mode). A merged report may list the
  findings of an earlier run. The script's writing of its own `.status` files does not fail in the model.
- *ProjectFiles.* `--force` over a service whose anchor another one uses leaves an undefined alias; keys
  that come in through `<<` count as absent; `envKeys` takes a line inside a multi-line value for a key.
  A `.gitignore` that cannot be read makes `extend compose --local` fail after the personal override
  was written: it stays, unignored, which the comment at `extend.go:182-184` means to rule out. A file
  is opened with `O_TRUNC` and then written (`scaffold.go:163-172`): when the write fails (a full disk) or
  the command is killed in between, the project's file is left truncated, and one created exclusively is
  left empty and skipped by the next run. The model's failing write leaves the file as it was, so
  `ProjectKeepsItsOwn` and `DoneMeansInEffect` say nothing of this.

## 7. Abstractions and what is not modelled

Commits, versions, migrations, commands, file contents are model values; a database is the set of its
migrations and whether a command left it half-done, or the name of its content; a console command passes
or fails, at any point. Durations exist only as "the bounded wait may end". The write of one file is one
step, which happens or does not (but for the downloaded binary and the dump), and the symlinks of a
project stand still. Three QA tools stand for seven; one generated service of each kind for all.

Not modelled, with the component's entry in `PROJECT.json`:

- *Configuration*: loading and validation of `.orobox.yaml` is a function from a file to a value or an
  error message; the modules take its outcome as an input.
- *Template rendering, failure reports, terminal output*: wording and layout. The commands of the
  pipeline's steps, and image, volume and service names, appear as their outcomes.
- *Report conversion*: XML and JSON; `QaRun` models when a document is read and what counts as a finding.
- *Other scaffolding*: `create`, `deploy-init`, `ci-init`, `qa-init` write each file once through the
  writer `ProjectFiles` models.
- *Certificates, ssh agent, hosts file, wrappers, Xdebug, `test-init`*: one call to the host or a fixed
  sequence of compose calls without state of their own.
- *Custom commands and the update notice*: a depth-first order over a small graph, and one buffered
  channel with a timeout; both within reach of their unit tests.
- *Progress*: silence lines, the Deployer task tracker, `--debug`.

## 8. Plan

All the modules of the plan are there, and every safety property of the runs but one is proved. Left:

1. `RemoteRelease`: `SchemaCoversServedCode` for any number of jobs, where `Booked` has to give way to
   what the books say under two deploys.
2. `EnvMerge`: `EnvMeansTheSame`, once `MergeEnv` and its readers are written as folds whose steps can be
   proved about one by one, assuming no chain of references longer than the eight rounds.
