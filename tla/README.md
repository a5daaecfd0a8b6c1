# SkillHub: formal models

This directory holds TLA+ models of SkillHub, the TLC instances that check them
and proofs that TLAPS checks. The models are written from the Rust code under
`src/crates`; `PROJECT.json` maps every definition to the lines it stands for.

Run a model with `tlc -config <run>.cfg <MC module>`, and check a proof with
`tlapm <module>_proofs.tla`.

## 1. The system

SkillHub keeps a central library of *skills* (directories of text), imports them
from directories and remote sources, and deploys versions of them into the
directories where coding agents look for skills. A desktop application and a
command line are two processes that may work on one database. Inside a process
the commands of the user interface are `async` functions of one facade
(`skillhub-application/src/lib.rs`); the runtime interleaves them at every await.

State lives in four kinds of places, and hardly any command touches only one:

* one SQLite file (rows of operations, skills, sources, versions, deployments, ...),
  behind one connection mutex per process;
* the version store: content-addressed object files, a manifest per version, a
  `current` file per skill, and `library.json`, the portable index;
* directories outside SkillHub's control: the deployment targets;
* maps of *prepared* plans in memory: a command is prepared, shown to the user and
  committed later, perhaps twice, perhaps after a restart.

No transaction spans two of these. Most of what can go wrong is a step of one
place that fails, ends with the process, or happens beside another command's step.

### Components

| component | state | operations | what makes it correct |
|---|---|---|---|
| operation journal (`operation_service.rs`, `operation/journal.rs`, `operation_repository.rs`) | `operations` rows, writer permit, cancellation set | run, cancel, checkpoint, prepare and commit undo | one effect per operation id, answers stay true, one writer, every call is answered |
| health and recovery (`health_service.rs`, `recovery_service.rs`) | the same rows, one prepared repair | repair, resolve | an answer given is not undone |
| deployment, removal, reconciliation (`deployment_service.rs`, `removal_service.rs`, `reconcile_service.rs`, `deployment/filesystem.rs`, `deployment_repository.rs`) | target trees, materialized trees, `deployments` rows, prepared plans | deploy, undeploy, delete, restore, collect, keep, ignore | no edited tree is removed, no tracked tree is lost, nothing present is written over |
| central library and version store (`version_store/*`, `library/*`) | objects, manifests, `current`, `library.json` | put, publish, discard, set current, clear, list | versions whole, pointers resolve |
| skill commands of the facade (`lib.rs`) | all of the above plus catalog and source rows | create, import, save, choose, update, relink, rename, delete | a failed command leaves nothing behind, an update replaces no local edits |
| deployment planner (`deployment/planner.rs`, `model.rs`) | none: a function of the request and the registered targets | resolve, plan | a plan is complete, each directory once, on nothing another skill or program owns |
| import classification and commit (`import/ownership.rs`, `import/conflict.rs`, `import_service.rs`) | prepared imports | prepare, commit, cancel | an original is removed only where the user may write and after a verified copy |
| application update (`update_service.rs`, `app_update_repository.rs`, `updater.rs`) | a cached check, one pending record, staging files, rollback marker | check, prepare, download, discard, install, startup probe, roll back | the installer gets the release it was called for; offers are consistent; a bad start is reported once |
| file watching and scheduler (`watch_service.rs`, `scheduler.rs`, `watcher/*.rs`) | queued hints, the jobs' own copies; the hints the adapter's watcher holds back | start, stop, hint, confirm, flush | a hint is scanned, held or queued again |
| safety checks (`check_service.rs`, `check_repository.rs`) | runs and findings in the database, checks in flight | run, dispose | a pass was earned, whatever ran at once |
| call policy, trials, combinations (`call_policy_service.rs`, `catalog_repository.rs`) | skill rows, prepared changes, originals in memory | edit, prepare, commit, restore the original | the original is the policy before the first change |
| project registry and shared configuration (`project_repository.rs`, `lib.rs`) | two lists in the settings table, a file per project | register, update, save a view, write the configuration | one project per directory, configurations are written at home |
| project assembly (`project_assembly_service.rs`) | none: the plan is in the user's hands | prepare, choose, commit | only accepted conflicts are deployed |
| backup and restore (`backup/*.rs`) | packages, staging and aside directories, the library | back up, retain, verify, restore | nothing undecided is lost, only recorded content is restored |
| database opening (`database/mod.rs`, `migrations.rs`, `recovery_point.rs`) | the file, SQLite's rollback journal, copies beside it | open, migrate, restore the copy | what was answered is on disk |
| source acquisition (`source/http.rs`, `archive.rs`, `git.rs`) | one fetch, its blocking task, temporary directories | download, extract, clone, walk, stop | only the answered directory stays |
| scanner and discovery (`scanner/*.rs`, `agent/discovery.rs`) | known targets, cache, snapshot | discover, scan, rescan | a fingerprint is the one of what is on disk |
| search, LLM tasks, requirements, credentials, settings, CLI, desktop UI | none, or one statement per call | | input and output |

The components meet in these ways. Facade commands call the version store, the
repositories and `library.json` in a fixed order, with cleanups on the error paths.
Deployment reads the version store (it materializes a version into
`deployment-trees`) and writes rows that `delete_skill` checks and cascades over.
The journal serializes mutations behind one permit, but not the commands of
deployment and of the library: these run beside each other. Health and recovery
write journal rows without the permit.

`PROJECT.json` lists every component with its status, and 40 hazards at their lines.

## 2. The modules

### OperationContract and OperationJournal

`OperationContract` is the abstract promise: an id is *claimed* by one request for
good, its mutation *takes effect* at most once, an Ok answer *confirms* an effect,
and a cancelled id is *withdrawn* and never confirmed.

`OperationJournal` is the code. A *row* is a record of the `operations` table (phase,
fingerprint, inverse, result, error). A *call* is one future of the service, with
one action per stretch between two awaits: `Acquire` (the tokio mutex),
`RunLookup`, `RunInsert` (claim by primary key), `RunPoll` (another owner's row: `RunReread`
while it is in flight, `RunGiveUp` after the last of the reads),
`RunApplying`, `MutationEffect`, `MutationReturn`, `RunReturned`, `RunCommit`,
`CancelLookup`, `CancelWrite`, `PrepareCheck`, `UndoCheck`, `UndoApplying`,
`UndoEffect`, `UndoVerify`, `UndoCommit`. A *handle* is an open `Database` with its
writer mutex (a process); a *journal* has the in-memory cancellation set.
`fact` is the one object the mutations change; a request's fingerprint is the
value it writes. `Abandon` is a future that ends early, by an error of the
repository or because its caller drops it; the guard gives the permit back.
`Crash` ends a process. `Resolve`, `HealthPrepare` and `HealthCommit` write rows
without the permit, as the code does.

Rows an id may hold and error codes are abstracted: `parse_error_code` knows 16
codes, so an error is `decodable` or `undecodable`, and a row with an undecodable
one can never be read again. History variables (`effects`, `answered`,
`cancelled`) are read by properties only.

### Deployment

State: `relations` (rows of `deployments`), `disk` (what is at each target),
`sources` (the trees under `deployment-trees`, possibly partly filled), `catalog`,
`recorded` and `store` (skill rows, version rows, version files), `prepared` (the
plans in memory) and `call` (the progress of each command). A *place* is a target
together with the runtime name; a tree is a member of `Contents` or `Partial`.
A hash is a pair of the way it was computed and the content, because the code
compares tree hashes with manifest hashes in one place.

Commands are cut where another command or a crash can come between: find, create
and fill the materialized tree, stage, publish, insert the row; decide, verify,
verify identity, unlink, mark; check, remove rows, remove versions. A plan holds
the records read when it was prepared, as the code's maps do. `Edit` and
`RemoveByHand` are other programs; an edit through a link changes the materialized
tree.

### Library

State: the catalog rows, the source link per skill, the recorded revision per
*source*; `objects`, `versions` (manifests), `current`, `portable` (library.json) and
`behind`, the skills whose record there lacks a change of their row; prepared import
plans; the connection lock; and the call in progress.

A version is a skill with a tree, a tree a set of objects, so that two versions and
two skills share object files as they do in the store. The commands are sequences
of a small set of steps (`Script`), each step is an action (`Put`,
`PublishManifest`, `Point`, `InsertRow`, `ReadLibraryJson`, `WriteLibraryJson`, ...),
and `Undo` and `CleanupFails` say what each error path does when a step
fails, on the first failure and inside a cleanup. `Discard` removes the manifest, then
`Inspect` looks at each object of it and `RemoveObject` removes those no manifest
names. Opening the library (`open`, which fails when library.json cannot be read), reading and
writing library.json are steps of their own, and every step that needs the connection waits for it while
another call holds it across its awaits.

`apply_source_update` is the one command that judges before it acts: `HashTree` asks for the
recorded revision, which answers an error when the skill is linked and the revision is NULL
(`HasRevision`), and puts the objects of the directory into the store as it hashes them;
`CheckSource` compares the hash and the current version with the revision; `Scan` lists the directory
again, which may have changed.
`upstream` is the directory of a source, which changes at any time; `accepted`
(history) is what it ever held, and what a relink declared to be its content.

### The services

Twelve components keep state of their own and meet the others only through the
facade. Each has one module, file watching two (the service and the adapter's watcher,
over the hints and keys of `WatchHints`):

| module | state | one action per | hard part |
|---|---|---|---|
| `AppUpdate` | the version on disk and the latest release; the cached check, the pending record, the staging file, the calls in flight, what the next start reads | step of check, manifest, prepare, download, verify, discard, install; start, failed start, rollback, stop | two calls, one record and one staging path; restarts between them; a newer release between two reads of the page |
| `Watch` | queue under keys, pending compensation, recognised roots; per job what it took | hint, take, scan, failed scan, publish, abort, start, stop | hints that arrive while a job scans; what a failed job gives back |
| `Coalescer` | hints under keys, the keys that are quiet, recognised roots, pending compensation | hint, overflow, window of a key that passes, flush of all or of the quiet ones, take of the compensation, start, stop | a directory that becomes known as a skill while hints about it wait under another key |
| `Projects` | the two lists, the directories and links, what a command has read and not yet written | command of one process, its write, moved and replaced directories | paths against directories; two processes without a transaction |
| `Assembly` | the plan, the choices, the item a commit has come to | prepare, choose and commit, item | commits repeated with other choices |
| `Backup` | packages with manifests, the retention in progress, the library with its index, the restore's directories | file group written, manifest, removal, each rename, crash, next start | a crash or failure between renames, content the user did not decide about |
| `Checks` | runs with findings, dispositions, checks in flight | begin, complete, fail, dispose, restart | two checks that read the same generation |
| `Acquisition` | the awaited fetch, the blocking tasks, temporary directories | redirect, chunk, entry, walk step, stop, give up, drop | a task that outlives the caller who waited for it; limits counted in two places |
| `Catalog` | skill rows, plans, commits, originals, restores in flight | command, take of a plan, application, each half of a restore, restart | several commits of one skill, failures after the original was remembered, a change between the halves of a restore |
| `Opening` | file, rollback journal, copies, phase | step of the copy, migration, restore of the copy, transaction, crash | a crash in each step, an older build that starts next |
| `Scanner` | disk as versions of files, known targets, cache, snapshot, the walk | file read by the walk, write by the user, moved directory, restart | edits while a scan reads; a cached fingerprint that is reused |
| `Import` | registered roots, matches, plan, calls, original, copies | classification and offer, step of a commit | two commits of one plan, failing steps |
| `Planner` | registered facts, request, answer | request | merging of targets that are one directory |

They share no variable. `Services` declares the variables of all of them and a
variable `service`; each behaviour is one of one component, with the variables of the
others off. So one TLC run checks them all, each at its own bounds, and nothing is
multiplied; and one inductive invariant, with a part per component, proves them all.
`Services` also states what the proofs assume of the constants, which TLC evaluates.

### MC modules and proofs

`MCOperationJournal`, `MCDeployment`, `MCLibrary` and `MCServices` define the constants'
values and symmetry sets for TLC. Each `X_proofs` module extends `X`;
`OperationContract_proofs` extends `OperationJournal_proofs` and holds the safety
properties that follow from the refinement's invariant, and the refinement.
`LibraryScript_proofs` extends `Library_proofs` with what the position of a command in its
script, or in its cleanup, says of the library. The services
have three: `Background_proofs` (AppUpdate, Watch, Coalescer, Opening, Acquisition, Scanner) and
`Commands_proofs` (Projects, Assembly, Catalog, Planner, Checks, Import, Backup) prove that the
invariant of each component is inductive, and `Services_proofs` concludes about the
specification.

## 3. What is checked

| run | instance | states | shows |
|---|---|---|---|
| `journal_safety` | 1 id, 1 undo plan, 2 calls, 1 process; crash, abandon, resolve, health, edit | 1.2 M | types; one writer; answers stay true; cancelled never answers Ok; a plan applies once; the journal implements `OperationContract` |
| `journal_two_processes` | 1 id, 2 calls, 2 processes, 2 fingerprints; crash, abandon, resolve, health | 1.05 M | at most one effect although the permits are separate: the claim alone does it |
| `journal_liveness` | 1 id, 1 plan, 2 calls, fairness; crash, abandon, resolve | 120 k | every call is answered; a call that finds its row in flight gives up |
| `journal_stale_undo` | 2 ids, 2 fingerprints, no disturbance | violation | see finding 1 |
| `deployment_sequential` | 1 place, 1 skill, 3 plans, every command, copy and link; edit, io, crash | 5.1 M | types; only unmodified trees are removed; active relations never vanish |
| `deployment_two_targets` | 2 places in every plan, 1 skill, 2 plans; edit, io, crash | 1.4 M | a plan is dropped only when all targets are deployed; a successful delete is complete |
| `deployment_concurrent` | 1 place, 2 skills, 3 plans, 2 calls, fairness | 0.58 M | an active relation keeps its tree; deploying writes over nothing; every command is answered |
| `deployment_crash` | 1 skill, crash | violation | see finding 2 |
| `deployment_delete_race` | 1 skill, 2 calls | violation | see finding 3 |
| `library_sequential` | 2 skills, 1 shared source, trees {a} and {a, b}, 1 import plan, every command, one failing step per command, crash, upstream changes | 1.9 M | types; versions whole; current versions exist; failed commands roll back; library.json follows row and pointer; taking upstream keeps local edits |
| `catalog_restore_race` | 1 skill, 3 policies, 2 plans, 1 commit, 1 restore | violation | see finding 4 |
| `services` | the thirteen service modules, one at a time | 4.2 M | types, and one to three properties of each, listed below |

What `services` shows of each component, and at which bounds:

| component | bounds | properties |
|---|---|---|
| AppUpdate | releases 1 to 3, of which 1 and 2 verify; 2 calls | the platform installer gets the bytes of the release it was called for (`PackageIsWhole`); offers are newer than the program and shown with their own manifest (`OffersAreConsistent`); `RollbackReportedOnce` |
| Watch | 1 skill, hints of all four kinds, 2 jobs (hints of two skills never share a key; the proof is for any number) | a change whose hint was accepted is queued, held by a job or scanned (`AcceptedHintsStayKnown`) |
| Coalescer | 2 skills, hints of all four kinds | a change whose hint was accepted waits under some key, or everything is to be read (`PushedHintsAreHandedOut`, within `AcceptedHintsStayKnown`) |
| Projects | 2 processes, 2 projects, 2 views of 1 name, 2 paths, 2 directories | one directory is one project, one name one view (`ListsAreKeyed`); `ConfigsAreWrittenAtHome` |
| Assembly | 2 required skills | `OnlyAcceptedConflictsAreDeployed` |
| Backup | 1 skill, clean or sensitive content, the index, the rest as one file, 2 packages, 1 tree left aside | `UndecidedContentSurvives`, `OnlyRecordedContentIsRestored`, `RetentionKeepsABackup` |
| Checks | 2 skills of one content, 2 checks at once, 2 places (1 of high risk), generations 0 and 1 | a check that is shown as passed has ended and each of its findings of high risk was confirmed (`PassedIsEarned`) |
| Acquisition | 2 blocking tasks, trees of up to 2 + 2 files, 5 entries, 3 bytes expanded, 4 bytes downloaded, 1 redirect | between two fetches only the answered directory is left, and it is within the limits (`OnlyTheAnswerStays`) |
| Catalog | 1 skill, 3 policies, 2 plans, 2 commits, 1 restore in flight | `FirstPolicyIsRemembered` |
| Opening | 2 schema versions, 2 transactions, 3 copies | `AnsweredDataIsOnDisk` |
| Scanner | 2 targets, 1 directory, 1 skill with 2 files, 3 edits | a skill that is reported without complaint has the fingerprint of what is on disk (`FingerprintsAreOfTheDisk`) |
| Import | candidate under up to 2 registered roots at 2 depths, 1 skill in the library, 2 callers | an original is removed only where the user may write and with an intact copy (`TakenOverIsOursAndKept`) |
| Planner | 2 targets, each with case or without, 2 directories, 3 sets of modes | `PlansAreSafe` |

**Why these bounds are enough.** In the journal, the races are between two calls about
one id (run and run, run and cancel, prepare and commit of an undo) and a third
party that writes the row: two calls, one id and one plan contain each of them,
and rows of different ids share only the permit and `fact`, which is why
`journal_stale_undo` has two ids. `Rereads` is 63 in the code and 1 in the runs: a reread that finds
the row still in flight changes nothing but the counter, so that one is enough for what may
happen between two reads and after the last. The proofs are for any number. In the
deployment model a call works on one place at a time; three plans are needed for a plan that
outlives a deployment and a removal; two places are needed for a commit that fails in part, and there every
row and every plan exists twice. Two skills at one place are the only way in which two
deployments can be mistaken for each other. In the library, sharing needs two
skills, an object that only one version has and one that both have: the two trees. A
second failure inside a cleanup is not explored by the passing run (`MaxFaults = 1`);
section 6 lists what it finds. In the services the races are again between two of a
kind: two downloads, two jobs, two processes with one list, two checks of one generation, a
task that was given up beside its successor, two commits of one skill, two callers of
one import. Three releases are the least with which an update in progress is
overtaken. Two packages are the least for retention; one skill suffices for a
restore because files are decided one by one and the rest of the library is a file
of its own. The limits of the acquisition lie below the largest trees that
`MaxFiles` admits, so that each of them refuses some. Two files are the least of which the
scanner may have read one; three edits change one of them twice in one walk. The only bounds
that cut behaviours off are `MaxAside`, `MaxGeneration`, `MaxWrites`, `MaxCopies`,
`MaxEdits`, `MaxFiles` and `MaxRoots`; the other constants of the services are sets of actors or the
code's own limits. One restore of the call policy in flight suffices for a commit in its middle.

**Bounds in guards.** `Deployments` bounds the rows and `Operations` the plans ever
prepared (a closed plan's id is never drawn again): when they are used up the
system stops, which is why the deployment and library runs say
`CHECK_DEADLOCK FALSE` (in the library an idle system with no import plan and no
enabled command may also stop). In `services` a component may stop at its bounds. Journal runs check for deadlock.
`MaxFaults` bounds the failures of one command and `Failing` names the steps that
may fail. `Disturbances` and `Requests` select what happens in a run. `library_sequential`
has two state constraints of `MCLibrary`. `OneHalfDone`: between two commands at most one skill
may be half done, that is, have parts without a row or a record in library.json that is
behind, and while there is one the library holds at most three versions. The command that breaks this
is explored to its end, and nothing begins after it. `PlansWaitAlone`: a prepared import waits
only while no other command runs. A waiting plan is read by nothing but the start of a commit
and changes nothing by waiting, so preparing or dropping it beside another command leads to the
states that preparing or dropping it before or after that command leads to.

**Steps that fail in `library_sequential`.** The pairs of a command and a step in `RolledBack`: scan,
capture, row, lookup, point, read, record, origin, hash, check, unrow, unrecord of every
command that has them, and open of every one but two. Left out are

* `open` of apply_source_update (`lib.rs:2195`) and of update_catalog_skill (`lib.rs:1877`), where the
  code returns with `?`: the pointer stays on the new version, the changed row stays;
* `verify` and `revise` of apply_source_update (`lib.rs:2184`, `lib.rs:2203`), which return so too;
* `revise` of create_skill (`lib.rs:1953`) and of relink_source;
* `list`, `drop`, `discard` and `clear` of delete, `reread` of a markdown save, and the steps used only
  by cleanups.

`Undo` says for each of them what the code does, and section 6 lists what comes of it. Property
by property, the run therefore says: *these* failures are rolled back. The theorems about
roll-back name the same pairs.

**Fairness.** `FairSpec` of the journal: weak fairness of each call's own step (the
runtime polls a future that is ready, statements and mutations return), strong
fairness of `Acquire`, because tokio's mutex hands out permits in FIFO order, so a
waiting call gets a permit that is free again and again. `ContextCheckpoint`,
cancels, repairs, dropped futures and crashes are not fair. `FairSpec` of Deployment: weak fairness
of each call's step; the waits are on SQLite and the file system only. The library and the
services have no liveness property: their commands are finite scripts, and where something is
awaited for long (a blocking git task, a failing scan that is repeated) the code gives up or
leaves it to the next timer, whose period it does not promise.

**Symmetry.** Callers of the journal, rows and plans of the deployment model and
skills of the library are interchangeable, and so are the actors `A` and `B` of the services,
none of which orders them or has a choice that depends on their names; no run with a liveness property uses
symmetry.

## 4. What is proved

For every value of the constants, under `ConstantsAssumption` of the module where it has one
(types of the constants, distinctness of the "no value" constants), which TLC evaluates in
every run of that module, and the hypotheses that a theorem names.

**The journal** (`OperationJournal_proofs`, any number of processes, calls and ids):

* `TypeCorrect`: `Spec => []TypeOK`. Inductive invariant: `TypeInv`, which adds what a call
  knows about its id, request and record at each step; without it a save would write a
  record of unknown type.
* `SingleWriter`: `Spec => []OneWriterPerHandle`. Invariant `PermitHeld`: a call in a
  working step is the writer of its handle. A crash empties the permit and the
  calls of one handle together, an abandoned call gives back only its own.
* `EffectAtMostOnce`: `Spec => []AtMostOneEffect`. The permit is not used: the argument is
  `Once`. An absent row has no effect; the owner of a claim has an existing row; two owners
  of one id are one call; an owner that has not yet run its mutation owns an id without
  effect. The claim of `RunInsert` needs an absent row, and rows never disappear, so there is
  never a second owner.

**The journal's contract** (`OperationContract_proofs`), under `OneProcess`: all calls share one
open database. With two processes on one file each has its own permit, a save of one
overwrites a row of the other, and TLC shows each of these properties broken.

* `AnswersStayCommitted`, `CancelsAreFinal`, `UndoAppliesOnce`, and
  `JournalImplementsContract`: `OneProcess => (Spec => ImplementsContract)`. Invariant `Settled`: per
  row, what its phase says of effects, answers and cancellations; per call past the
  permit, that its copy of the row is the row. Each step of the journal either touches a
  single id, by the call that holds the permit, or is a background step (crash, repair,
  resolution, abandon) that changes no verdict (`StepKinds`); what touches one id leaves the
  others settled (`TouchKeeps`). The refinement then needs one lemma per kind of touch. The contract has no
  fairness, so nothing of the refinement is left out.

**Deployment** (`Deployment_proofs`):

* `TypeCorrect`: `Spec => []TypeOK`, with any number of callers. Invariant `TypeInv`: rows, files,
  plans and calls; which of a call's fields are filled in follows from its goal
  and its step (`CallOK`), which is what the partial functions of `disk` and `sources` and
  the records need.
* `DeployWritesOverNothing`: `Spec => DeployLeavesPresentTreesAlone`, with any number of callers
  and edits at any moment. Of the steps of a command only `Publish` and `Unlink` touch a target;
  `Publish` needs it free, and no deployment unlinks.
* `RemovalsTakeWhatTheyExpect`: `OnlyUnmodifiedTreesRemoved`, under `OneCaller` and
  `EditsBetweenCommands`. Invariant `VerifiedInv`: a call about to unlink has the hash of what is there, as
  its record expects it. Without the second hypothesis an edit falls between
  `verify_owned` and `remove_target`, without the first another command's deployment does.
* `ActiveRelationsStay`: `ActiveRelationsNeverVanish`, under `OneCaller`. Invariant `CheckedInv`: when
  the rows of a skill are about to be removed, it has no relations. With two
  commands it is false, which is finding 3.
* `DeletesAreComplete`: `DeleteIsComplete`, under `OneCaller \/ "io" \notin Disturbances`. Invariant
  `GoneInv`: from the removal of the rows to that of the versions nothing of the skill is in the catalog,
  because an insert needs the row of the skill and a reconcile one of a version (`RowsKeepTheirVersion`,
  `GoneStays`). With two deletes of a skill, of which one fails, the failure puts back the row the other
  has just deleted. `OpenPlansInv` (the plan of a call in progress is still there) tells the two
  outcomes apart.
* `DroppedPlansAreDeployed`: `ClosedPlansAreDeployed`, under `OneCaller`. Invariant `DoneInv`: as long as no target has
  failed, the targets a deployment has left behind (not `Underway`) are deployed.
* `ActiveRelationsKeepTheirTree`: `[]ActiveRelationsAreBacked`, under `Calm`: no disturbance, no delete, and
  one caller, or any number that deploy copies and undeploy. Invariant `BackedInv`: rows have
  different places, what a removal remembers keeps its row, a published tree stands until its
  relation is inserted, and a source is written while no target is linked to it. Under one
  caller the theorem also says that no reconcile is ever admitted. A run with deletes shows why they are excluded
  (section 6).

**The library** (`Library_proofs`, and from the third theorem on `LibraryScript_proofs`):

* `TypeCorrect`: `Spec => []TypeOK`, the scripts and cleanups of the commands included.
* `WholeOneAtATime`: `OneCaller => (Spec => []VersionsAreWhole)`, for any skills, trees,
  failing steps and any number of faults. `WholeInv` adds `CallIsSafe`: what a capture has put
  stays until its manifest is there; during a discard no capture relies on objects; and
  the object about to be removed is named by no manifest. The assumption is needed: with
  two callers a delete inspects an object, a create finds it already there and publishes
  a manifest that names it, and the delete removes it. TLC shows that trace with
  `Callers = {c1, c2}`.
* `LibraryJsonIsCurrent`: `OneCaller => (Spec => LibraryJsonFollowsCurrent)`, and
  `LocalEditsAreProtected`: `OneCaller => (Spec => UpdatesKeepLocalEdits)`, whatever steps
  fail, however often, and with crashes. Invariant `WorkInv`: a command without an error is at a
  position of its script (`Working`), or about to discard a version that its delete has listed
  (`Dropping`), and the position tells what is there: the version captured (`Captured`), the
  pointer where the command found it or put it (`Pointed`), the record written (`Recorded`), what a
  delete has taken away (`Deleting`), and for an update that what it replaces is the revision recorded of
  the source (`Updating`); a revision that is recorded was captured from the source or declared by a
  relink (`RevisionsAreAccepted`). An answer without error is at the end of the script. With two callers both are false:
  one command writes the library.json, or moves the pointer, that the other has just read.
* `FailuresRollBack`: `FailedCommandsRollBack`, and `CurrentVersionsAreThere`: `[]CurrentVersionExists`,
  under `OneCaller` and `OneFault`: at most one step of a command meets an I/O or database error,
  and it is one of `RolledBack`, the pairs that `library_sequential` lets fail. Failures for another reason
  (a version or a row that is not there, an update that is not due) are not limited, and crashes may happen
  anywhere. Invariant `BackInv`: a command without an error has left as they were the parts of its skill
  that its later steps change (of a row also whether its record in library.json is behind, `FieldsAreBack`),
  and everything else is as before, or differs only in those parts (`KeptAt`, `Restorable`); after the failure the steps of the cleanup are in an order
  (`Ordered`) in which
  each part that is not yet back is put back by a step to come (`Cleaning`), and a step of a cleanup that
  is not ready, the second discard of create_skill, has nothing left to do. When no step is left, all is
  back. A discard then never takes the version that the pointer names: a cleanup has moved the pointer
  back before, to another version, and a delete has removed the row. Both hypotheses are needed:
  section 6 lists what two callers, a second fault and the other steps break.

**The services** (`Services_proofs`): every invariant and every action property that the run
`services` checks, and no other hypothesis than the assumptions that `Services` names: any
number of users, jobs, skills, releases, packages, directories and writings, any limits.

`ServicesKeepTheirInvariants`: `Spec => []ServicesInv`, where `ServicesInv` says of each
component that, if the behaviour is about it, its invariant holds. `StepOfTheService` shows
that a step of the specification is one of that component. `TypesAreKept` is the type
correctness of all of them. What each invariant adds to the types, and why the property
needs it:

* **AppUpdate**, `UpdateInv` (`InstallersAreGivenWholePackages`, `OffersStayConsistent`,
  `RollbacksAreReportedOnce`): a file comes to a staging path only by the rename of bytes with
  the digest of the release, so it is that release or absent, whoever downloads or discards
  meanwhile; what a call holds is what it looked up (`UpdateCallOK`). The report of a rollback
  consumes the record in the statement that makes it (`UpdateReportedInv`).
* **Watch** and **Coalescer**, `WatchInv`, `CoalescedInv` (`HintsStayKnown`): a key is only the key of
  hints about its own skill, so that replacing a hint under its key loses no skill; a job that
  has still to compensate holds the compensation.
* **Opening**, `OpenerInv` (`AnswersAreDurable`): which copies exist in each phase, and that the copy being
  made or restored is of the file's data (`OpeningPhases`, `CopyIsOfTheFile`).
* **Acquisition**, `FetcherInv` (`NothingElseStays`): every directory has an owner that is still at
  work or was answered (`EveryDirIsOwned`), and what has been extracted or copied so far was counted
  against the limits (`FetchRuns`).
* **Scanner**, `ScanInv` (`FingerprintsFollowTheDisk`): an entry of the cache or of a snapshot is
  `Trusted`: a stamp that is still on disk was read into its fingerprint. That survives a writing
  between the stamping and the reading of a file, because a number is written once: the entry
  then has a stamp that never comes back. So an entry whose stamps are those of the disk has the
  fingerprint of the disk, whatever scan left it there.
* **Projects**, `ProjectInv` (`ListsStayKeyed`, `ConfigsGoHome`): the list a command has read and not yet
  written is keyed as well.
* **Assembly**, `AssemblyInv` (`ConflictsAreAccepted`): the items a commit has not come to are those
  it validated (`StillAsChosen`).
* **Catalog**, `PolicyInv` (`PoliciesCanBeTakenBack`): what is remembered of a skill is its first policy, and
  a restore in flight holds that policy while nothing is remembered (`PolicyTakenIsFirst`). Both are said of the
  skills that were not changed between the two halves of a restore (`overlapped`); for the others TLC
  shows the opposite, finding 4.
* **Planner**, `PlannerInv` (`PlansStaySafe`): the groups by directory divide the selected targets, and a
  plan has one target plan per group.
* **Checks**, `CheckInv` (`ChecksAreEarned`): a failed run stays failed, and a finding of high risk in any
  recorded run, not only the newest, is open until it is confirmed (`EarnedRun`).
* **Import**, `ImportInv` (`OriginalsAreKept`): a plan offers a take-over only for a place that is
  ours, and a call that is about to remove has verified its copy (`CallKeeps`). That the primary match is one of the innermost
  needs a minimum of ranks, which exists because paths are bounded (`DepthsAreBounded`).
* **Backup**, `BackupInv` (`RestoresLeaveTheUndecided`, `RestoresFollowTheManifest`,
  `RetentionLeavesABackup`): what each directory of a restore holds in each of its steps
  (`RestoreKeeps`); a doomed package has a newer valid one (`SomeNewerOneIsValid`), which needs
  packages to be numbered in the order of their creation (`BackupsAreNumbered`). `RestoresLeaveTheUndecided`
  excepts one file: the index portable/skills.json is in every package and is written without a question.

**Only model-checked.** The liveness properties `EveryCallReturns` and `EveryCommandAnswers`
(liveness and ENABLED are out of the prover's reach). Every other property of a passing run is
stated by a theorem, some of them under the hypotheses named above.

## 5. Findings

1. **An undo overwrites a newer change** (`journal_stale_undo`,
   `operation_service.rs:298`). The facts an undo compares were read by its caller
   before it waited for the permit; the comparison under the permit uses the
   old reading.
2. **A partial tree is deployed as a version** (`deployment_crash`, `lib.rs:193`).
   `materialized_source` takes a directory that exists as complete.
3. **A delete cascades over an active deployment** (`deployment_delete_race`, `lib.rs:425`).
   The check and the removal are two holds of the connection.
4. **A restored call policy is not the original** (`catalog_restore_race`, `lib.rs:4504`).
   `restore_original` takes the original from the map under one mutex and writes the row under
   another. A change that comes between finds the map empty and remembers the policy it replaces,
   which is not the first one; the restore then writes the first one, and the next restore goes back to the
   intermediate. The facade has commands for change and restore and holds no lock around either.

## 6. Other disagreements that TLC shows

The following were met with variants of the runs (more callers, more faults, more
failing steps) and are not kept as runs.

Journal:
* Two `Database` values on one file run mutations at once; `journal.rs:130` speaks of one writer.
* `LocalHealthBackend::repair` (`lib.rs:4368`) marks rows of running operations as needing recovery.
* `parse_error_code` (`operation_repository.rs:282`) cannot read back every code that is written.

Deployment:
* Deploying again after an undeploy meets `UNIQUE(target_id, runtime_name)` of the removed
  row (`0001_initial.sql:109`): the tree is published, the insert refused.
* `insert_sync` needs rows of `versions` and `targets` that only tests insert, with
  foreign keys on (`database/mod.rs:217`): the instances take both as present.
* An edit through a link changes the materialized version, and restore links it again.
* A stale undeploy plan deletes files that "keep files and remove relation" has kept since.
* One undeploy plan committed by two callers, a delete and a deployment of another skill
  in between: the slower caller removes the other skill's tree.
* Two skills of the same content, one caller: two undeploy plans are prepared for one relation, the
  first is committed by delete with its tree, the other skill is deployed at the freed place, and the
  second plan, committed then, finds the content it expects and removes the tree of the other skill
  (the owner check compares a place and a hash, not the relation).
* A deployment that failed for one of its targets never commits when retried, because the
  other targets are now occupied (`deployment_service.rs:122`).
* `collect` records a manifest hash as the expected tree hash (`lib.rs:511`): the target stays modified.
* Restoring a missing target is admitted (`reconcile.rs:66`) and always fails (`lib.rs:549`).
* An edit between `verify_owned` and `remove_target` is deleted (`filesystem.rs:152`).
* A crash leaves `.skillhub.tmp.*` directories (`filesystem.rs:81`); a delete that fails half-way
  cannot be retried (`lib.rs:425-450`).

Library:
* A failing `set_revision` at the end of create_skill (`lib.rs:1953`) discards the version of a listed skill,
  whose row and pointer stay.
* A library.json that cannot be read fails `CentralLibrary::initialize(root)?` after apply_source_update has moved
  the pointer (`lib.rs:2195`) and after update_catalog_skill has written the row (`lib.rs:1877`): an error
  is answered and nothing is put back, although the next lines do put back when the writing fails, and
  `tests/facade.rs:2823` speaks of `catalog_metadata_commands_update_skill_detail_atomically`.
* An imported skill cannot be checked or updated: `commit_import` links its source without a revision
  (`source_repository.rs:26-29`), and `revision_for_skill` (`:61-71`) reads the NULL as a `String` and
  fails (`lib.rs:2059-2067`), until a create or a relink of some skill records a revision for that source. The
  fallback to the current version (`lib.rs:2101`) is reached for no linked skill.
* What a failed command answers is compared with rows, versions, pointers and library.json, not with the
  source links: a delete that puts its row back has lost the link (`catalog_repository.rs:51-70`).
* Two callers: delete beside create removes a shared object; create (under the lock) and
  set_current_version (outside it) lose a record of library.json; two saves of one content,
  of which one fails, discard the current version; one import plan committed twice makes two skills;
  `expected_identity` of a markdown save is compared and used in different steps.
* Two faults: a failed repoint followed by a discard leaves a pointer to nothing; a failure
  of the lookup after `set_current` in apply_source_update leaves the pointer moved.
* A failure inside the removal of the row in delete puts back a row whose pointer may dangle and
  whose source link is lost (`lib.rs:439-447`).
* Revisions are per source (`source_repository.rs:73`): updating one skill makes another skill of
  the source look locally changed; relinking a skill without a version records a NULL revision.
* rename writes the version it read before the lock; a crash between `current` and library.json
  leaves them apart; a failed capture of an import leaves objects that no manifest names; a markdown
  save whose re-read fails answers an error after the change.

* `apply_uninstall_decision` (`lib.rs:1604-1683`) is not modelled as a command: each of its undeploys is
  a prepare and a commit with a fresh record, which Deployment has. It stops at the first failure; a retry
  then stops at the first deployment that is already removed, until the uninstall is prepared again.

Application update:
* `mark_failed` (`update_service.rs:277`) marks whichever update is prepared by then.
* `update_service.rs:326-328` says a healthy start clears the marker; `mark_launched` (`:332`) has no
  caller outside tests, and a later unhealthy start consumes the old marker. A start that
  crashes and is repeated within 60 s reads "starting" and rolls nothing back.
* The comment at `update_service.rs:235-236` says the downloader refuses to overwrite; `persist`
  replaces what is there. `record_ready` (`app_update_repository.rs:127`) stores `ReadyToInstall` before the download;
  whether the platform's installer verifies the signature again is outside the model.

File watching:
* Neither `WatchService` nor the `Watcher` of the adapters is constructed outside tests, and nothing
  passes the hints of the one to the other; Watch and Coalescer are checked apart.
* A hint that names a target has the key `target:<id>` (`watch_service.rs:158-160`), whatever skill it is about: of
  two hints about two skills of one target the second replaces the first. Only tests make such hints.
  `WatchHints` takes one target per skill, so the run and `HintsStayKnown` are about hints that do not share
  one.
* `Watcher::flush` hands out at once what `flush_ready` would hold back for the stable window.

Projects, assembly:
* Two processes read the list, change it and write it back without a transaction: one loses the
  other's registration although it was answered.
* The check of a project's directory and the writing of its configuration are one step in the model: a
  directory that is moved or registered again between the two is not explored.
* `read_shared_config` does not check the directory's identity, and the file is written in place.
* The facade builds a service per commit, so that committing a plan twice deploys twice
  (`tests/project_assembly.rs:55-57` expects once, of one service); the path it takes for a version
  (`versions/<skill>/<version>`) is never a directory, so that target items fail; an item
  without a logical target is reported as succeeded; a row that is refused leaves the tree.

Backup:
* A restore replaces portable/skills.json by that of the package whatever is there and whatever was decided about
  the skills (`restore.rs:142-150`; every package has one, `export.rs:55-58`).
* What is written into the library between the staging copy and the renames is lost; a package is
  read again after it was verified; a crash between the two renames leaves no library, and the next
  start creates an empty one (the old is aside); a first rename that fails leaves the staging
  directory; the number of skipped conflicts counts decisions about what is no conflict; a restored
  file is written to `skills/<id>/SKILL.md`, which no other command reads.

Checks:
* No production code inserts rows of `versions`, which every run refers to
  (`tests/facade.rs:2583-2588` insert them by hand): the model takes the row as present or absent.
* The id of a run has no skill in it: two skills of one content collide, and the second insert is
  refused. So is the second of two checks of one generation. Findings of a model check are
  numbered by position; a new run forgets the dispositions of the old one; `Actionable` is never set back.

Acquisition:
* The fetchers are not called by the facade. A clone's directory is removed under a task that has not
  stopped within a second of its deadline; a dropped future detaches the task. Each directory level counts with
  counters of its own and the total is checked afterwards. Removals are taken to
  succeed, and a killed process leaves its directories.

Catalog:
* `restore_original` forgets the original although its write fails or the skill was removed; the `before` of a plan is never
  compared again, and two commits that took one plan may both apply; originals do not survive a restart.
* `set_metadata` without a tag is refused while a trial is due; a combination may lose its last member;
  `reindex_skill` has no caller outside tests; ignore rules are only in memory; `update_catalog_skill` reads
  `current` before it takes the lock and may write a stale version to library.json.

Opening:
* The copy is taken without SQLite's rollback journal: after a crash in the middle of a transaction
  and a migration that then fails, the half-written copy replaces the file that SQLite had repaired
  (`exposed` marks these behaviours, and `AnsweredDataIsOnDisk` excepts them). Copies that a crash leaves are never used or removed.
* A crash while a copy is written back leaves a torn or empty file, and an empty one is opened as a new
  database. With two processes the restore of a failed open replaces commits of the other.

Scanner:
* A rescan of one skill or of some scopes replaces snapshot and cache as a whole (`lib.rs:1433`), which costs
  later scans their reuse. One unavailable target refuses a scan of all (`lib.rs:1347-1407`).
  Nothing outside tests records discovered agents. Nested directories report a skill twice.
* An edit that keeps size and modification time is not seen, and neither is a file that is put back with an
  old modification time (`mv`, `rsync -t`): in the model a stamp is never given twice. The identity of
  a directory is compared before the walk only.
* A directory below the depth limit, an entry that the listing cannot give and one whose metadata cannot be read
  are skipped without a report (`skill_detector.rs:336-338`, `:358`, `:360-362`), so that an edit there is not seen;
  a directory that cannot be listed and the limit of entries are reported (`CutShort`). The model's trees are the
  files that the walk comes to.
* The registration of the scopes and the walk are two holds of the connection and one step of the model
  (`BeginScan` says why). Scopes that are projects are left out.

Import:
* `OwnershipClassifier` and `ImportService` are not called by the facade, which commits on its own
  and refuses two of the decisions as unsupported. The ownership and the hash come with the request.
* An edit of the original between its copy and its removal is lost; two commits of one plan copy
  twice; a failed verification leaves the copy; one missing registered directory fails the
  classification of all; a reused skill may have been deleted since.

Planner:
* The facade passes no existing entries and an empty gate (`model.rs:336`), so conflicts and the gate
  never refuse anything in production; the mode of a plan is that of its first target.

## 7. What is not modelled

* Search, LLM tasks, evidence and requirement rules, the candidate detector of imports
  (`import/detector.rs`): queries and functions of text.
* Standard export (`export/mod.rs`), credentials, settings, custom agents, diagnostics: one statement or one file per
  call. CLI and desktop UI translate arguments to facade calls; that they are two processes is in
  `journal_two_processes`, Projects and AppUpdate's restarts.
* `pin_skill_version` and the listing and matching queries of projects.
* Remote sources in `apply_source_update`: they differ from local ones in how the directory is fetched, which
  is Acquisition.
* Bytes, names, paths, times and messages: abstracted to members of small sets. SHA-256 is taken
  as collision-free: an object is its content, a digest is its package.
* SQLite: a statement or transaction is atomic and durable (module Opening has its journal and the
  file below it). The file system: a rename is atomic, and what was written before a crash
  is there after it.
* Permissions, and the parsing in the path policy; what the policy decides is in Planner, Projects and Scanner.

## 8. What is left

* **Library**: pointers resolve under more failing steps than `RolledBack` (a list, a re-read or a
  close that fails moves no pointer, although it may not roll back), by a weaker form of `BackInv`.
* **Composition**: the facade's import with the scanner's snapshot, and a project assembly with the
  deployments it makes; both pass plans through the user and meet in rows that the modules above already have.
