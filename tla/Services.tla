------------------------------ MODULE Services ------------------------------
(***************************************************************************)
(* The components that keep their own state and meet the others only       *)
(* through the facade.  They share no variable, so a behaviour here is one *)
(* of one component, chosen at the start; the variables of the others are  *)
(* Off.  Some constants serve several components: who calls at the same    *)
(* time, and which skills there are.                                       *)
(***************************************************************************)
EXTENDS Naturals, FiniteSets

CONSTANTS
  None,
  Users,     \* users, processes, calls and blocking tasks
  Jobs,      \* jobs, checks and commits
  Skills, Twins,  \* skills; skills that share a content or a root
  Releases, Signed, Garbage,                                              \* AppUpdate
  HintKinds,                                                              \* WatchHints
  ProjectIds, Views, Names, Paths, ProjectDirs,                           \* Projects
  Size,                                                                   \* Assembly
  Payloads, Sensitive, Backups, MaxAside,                                 \* Backup
  Places, HighRisk, MaxGeneration,                                        \* Checks
  MaxFiles, MaxEntries, MaxExpanded, MaxDownload, MaxRedirects,           \* Acquisition
  Policies, Default, PolicyChanges, PolicyRestores,                       \* Catalog
  Latest, MaxWrites, MaxCopies,                                           \* Opening
  ScanTargets, ScanDirs, ScanFiles, Below, Tree, Marker, MaxEdits,        \* Scanner
  Depths, MaxRoots, Existing,                                             \* Import
  Targets, Dirs, Capabilities                                             \* Planner

VARIABLES
  service,  \* the component that this behaviour is about
  installed, published, phase, probe, previous, cache, pending, staging, offers, calls, reported,
  watching, queue, compensation, recognized, jobs, unseen,
  running, pushed, quiet, skill_roots, overflow, unread,
  place, link, registry, views, project_pending, config,
  plan, work, at, answer, placed,
  packages, making, doomed, library, restore, aside, kept,
  registered, dangers, runs, commands, confirmed,
  fetch, task, dirs, received,
  rows, prepared, commits, originals, restores, baseline, overlapped,
  file, journal, copies, opening_phase, build, saved, exposed,
  scanner_place, known, disk, edits, scanner_cache, snapshot, walk,
  roots, remote, records, import_plan, import_calls, original, import_copies,
  facts, sensitive, request, planner_answer, planner_plan

-----------------------------------------------------------------------------
Update == INSTANCE AppUpdate

Watcher == INSTANCE Watch WITH Kinds <- HintKinds

Coalesced == INSTANCE Coalescer WITH
  Skills <- Twins, Kinds <- HintKinds, pending <- pushed, roots <- skill_roots

Project == INSTANCE Projects WITH
  Processes <- Users, Projects <- ProjectIds, Dirs <- ProjectDirs, pending <- project_pending

Assembler == INSTANCE Assembly

BackupFiles == INSTANCE Backup WITH Contents <- Payloads

Checker == INSTANCE Checks WITH Skills <- Twins, Checkers <- Jobs

Fetcher == INSTANCE Acquisition WITH Tasks <- Users

Policy == INSTANCE Catalog WITH
  Plans <- PolicyChanges, Commits <- Jobs, Restores <- PolicyRestores

Opener == INSTANCE Opening WITH phase <- opening_phase

Scan == INSTANCE Scanner WITH
  Targets <- ScanTargets, Dirs <- ScanDirs, Files <- ScanFiles,
  place <- scanner_place, cache <- scanner_cache

Importer == INSTANCE Import WITH
  Callers <- Users, plan <- import_plan, calls <- import_calls, copies <- import_copies

Plans == INSTANCE Planner WITH answer <- planner_answer, plan <- planner_plan

update   == <<installed, published, phase, probe, previous, cache, pending, staging, offers,
              calls, reported>>
watch    == <<watching, queue, compensation, recognized, jobs, unseen>>
adapter  == <<running, pushed, quiet, skill_roots, overflow, unread>>
projects == <<place, link, registry, views, project_pending, config>>
assembly == <<plan, work, at, answer, placed>>
backup   == <<packages, making, doomed, library, restore, aside, kept>>
checks   == <<registered, dangers, runs, commands, confirmed>>
acquire  == <<fetch, task, dirs, received>>
catalog  == <<rows, prepared, commits, originals, restores, baseline, overlapped>>
opening  == <<file, journal, copies, opening_phase, build, saved, exposed>>
scanner  == <<scanner_place, known, disk, edits, scanner_cache, snapshot, walk>>
imports  == <<roots, remote, records, import_plan, import_calls, original, import_copies>>
planner  == <<facts, sensitive, request, planner_answer, planner_plan>>

first  == <<service, update, watch, adapter, projects, assembly>>
second == <<service, backup, checks, acquire, catalog>>
third  == <<service, opening, scanner, imports, planner>>

-----------------------------------------------------------------------------
(* What the proofs assume of the constants, and every configuration meets.                 *)

\* There is a first release.
ASSUME ReleasesAreVersions ==
  /\ Releases \subseteq Nat /\ None \notin Releases
  /\ \E v \in Releases : \A w \in Releases : v <= w

ASSUME SizeIsNatural == Size \in Nat

ASSUME NoneIsNoAnswer == None \notin {"refused", "planned", "intact"}

\* Packages are numbered in the order of their creation.
ASSUME BackupsAreNumbered ==
  /\ Backups \subseteq Nat \ {0} /\ IsFiniteSet(Backups)
  /\ Sensitive \subseteq Payloads /\ None \notin BackupFiles!Texts
  /\ "index" \notin Skills
  /\ None \notin BackupFiles!Trees \union BackupFiles!Package

ASSUME GenerationsAreNatural == MaxGeneration \in Nat

ASSUME LimitsAreNatural ==
  /\ MaxFiles \in Nat /\ MaxEntries \in Nat /\ MaxExpanded \in Nat
  /\ MaxDownload \in Nat /\ MaxRedirects \in Nat
  /\ "archive" \notin Users /\ "answer" \notin Users
  /\ None \notin Fetcher!Fetches \union Fetcher!Walks

ASSUME DefaultIsAPolicy ==
  Default \in Policies /\ None \notin Policies \union Policy!Rows \union Policy!Takings

ASSUME SchemasAreNatural ==
  /\ Latest \in Nat \ {0} /\ MaxWrites \in Nat /\ MaxCopies \in Nat
  /\ None \notin Opener!Contents

\* The trees of directories and skills are trees of files.
ASSUME TreesAreOfFiles ==
  /\ MaxEdits \in Nat \ {0}
  /\ Below \in [ScanDirs -> SUBSET Skills]
  /\ Tree \in [Skills -> SUBSET ScanFiles] /\ Marker \in [Skills -> ScanFiles]

\* Paths have a longest one; skills of the library are numbered in the order of their ids.
ASSUME DepthsAreBounded ==
  /\ Depths \subseteq Nat /\ IsFiniteSet(Depths)
  /\ Existing \subseteq Nat

-----------------------------------------------------------------------------
Off == "off"

Init ==
  /\ service \in {"update", "watch", "adapter", "projects", "assembly", "backup", "checks",
                  "acquire", "catalog", "opening", "scanner", "imports", "planner"}
  /\ IF service = "update" THEN Update!Init
     ELSE /\ installed = Off /\ published = Off /\ phase = Off /\ probe = Off
          /\ previous = Off /\ cache = Off /\ pending = Off /\ staging = Off
          /\ offers = Off /\ calls = Off /\ reported = Off
  /\ IF service = "watch" THEN Watcher!Init
     ELSE /\ watching = Off /\ queue = Off /\ compensation = Off /\ recognized = Off
          /\ jobs = Off /\ unseen = Off
  /\ IF service = "adapter" THEN Coalesced!Init
     ELSE /\ running = Off /\ pushed = Off /\ quiet = Off /\ skill_roots = Off
          /\ overflow = Off /\ unread = Off
  /\ IF service = "projects" THEN Project!Init
     ELSE /\ place = Off /\ link = Off /\ registry = Off /\ views = Off
          /\ project_pending = Off /\ config = Off
  /\ IF service = "assembly" THEN Assembler!Init
     ELSE plan = Off /\ work = Off /\ at = Off /\ answer = Off /\ placed = Off
  /\ IF service = "backup" THEN BackupFiles!Init
     ELSE /\ packages = Off /\ making = Off /\ doomed = Off /\ library = Off
          /\ restore = Off /\ aside = Off /\ kept = Off
  /\ IF service = "checks" THEN Checker!Init
     ELSE registered = Off /\ dangers = Off /\ runs = Off /\ commands = Off /\ confirmed = Off
  /\ IF service = "acquire" THEN Fetcher!Init
     ELSE fetch = Off /\ task = Off /\ dirs = Off /\ received = Off
  /\ IF service = "catalog" THEN Policy!Init
     ELSE /\ rows = Off /\ prepared = Off /\ commits = Off /\ originals = Off
          /\ restores = Off /\ baseline = Off /\ overlapped = Off
  /\ IF service = "opening" THEN Opener!Init
     ELSE /\ file = Off /\ journal = Off /\ copies = Off /\ opening_phase = Off
          /\ build = Off /\ saved = Off /\ exposed = Off
  /\ IF service = "scanner" THEN Scan!Init
     ELSE /\ scanner_place = Off /\ known = Off /\ disk = Off /\ edits = Off
          /\ scanner_cache = Off /\ snapshot = Off /\ walk = Off
  /\ IF service = "imports" THEN Importer!Init
     ELSE /\ roots = Off /\ remote = Off /\ records = Off /\ import_plan = Off
          /\ import_calls = Off /\ original = Off /\ import_copies = Off
  /\ IF service = "planner" THEN Plans!Init
     ELSE /\ facts = Off /\ sensitive = Off /\ request = Off /\ planner_answer = Off
          /\ planner_plan = Off

Updates   == service = "update" /\ Update!Next
             /\ UNCHANGED <<watch, adapter, projects, assembly, second, third>>
Watches   == service = "watch" /\ Watcher!Next
             /\ UNCHANGED <<update, adapter, projects, assembly, second, third>>
Coalesces == service = "adapter" /\ Coalesced!Next
             /\ UNCHANGED <<update, watch, projects, assembly, second, third>>
Registers == service = "projects" /\ Project!Next
             /\ UNCHANGED <<update, watch, adapter, assembly, second, third>>
Assembles == service = "assembly" /\ Assembler!Next
             /\ UNCHANGED <<update, watch, adapter, projects, second, third>>
Backs     == service = "backup" /\ BackupFiles!Next
             /\ UNCHANGED <<checks, acquire, catalog, first, third>>
Checking  == service = "checks" /\ Checker!Next
             /\ UNCHANGED <<backup, acquire, catalog, first, third>>
Acquires  == service = "acquire" /\ Fetcher!Next
             /\ UNCHANGED <<backup, checks, catalog, first, third>>
Catalogs  == service = "catalog" /\ Policy!Next
             /\ UNCHANGED <<backup, checks, acquire, first, third>>
Opens     == service = "opening" /\ Opener!Next
             /\ UNCHANGED <<scanner, imports, planner, first, second>>
Scans     == service = "scanner" /\ Scan!Next
             /\ UNCHANGED <<opening, imports, planner, first, second>>
Imports   == service = "imports" /\ Importer!Next
             /\ UNCHANGED <<opening, scanner, planner, first, second>>
Planning  == service = "planner" /\ Plans!Next
             /\ UNCHANGED <<opening, scanner, imports, first, second>>

Next ==
  \/ Updates \/ Watches \/ Coalesces \/ Registers \/ Assembles \/ Backs \/ Checking
  \/ Acquires \/ Catalogs \/ Opens \/ Scans \/ Imports \/ Planning

Spec == Init /\ [][Next]_<<first, second, third>>

-----------------------------------------------------------------------------
(* The properties of the components                                        *)

\* The state of every component has its type.
EveryTypeOK ==
  /\ service = "update" => Update!TypeOK
  /\ service = "watch" => Watcher!TypeOK
  /\ service = "adapter" => Coalesced!TypeOK
  /\ service = "projects" => Project!TypeOK
  /\ service = "assembly" => Assembler!TypeOK
  /\ service = "backup" => BackupFiles!TypeOK
  /\ service = "checks" => Checker!TypeOK
  /\ service = "acquire" => Fetcher!TypeOK
  /\ service = "catalog" => Policy!TypeOK
  /\ service = "opening" => Opener!TypeOK
  /\ service = "scanner" => Scan!TypeOK
  /\ service = "imports" => Importer!TypeOK
  /\ service = "planner" => Plans!TypeOK

\* The platform installer is given the bytes of the prepared package.
PackageIsWhole == service = "update" => Update!PackageIsWhole

\* Offers are newer than the program, and shown with their own manifest.
OffersAreConsistent == service = "update" => Update!OffersAreConsistent

\* A prepared update is reported as rolled back once.
RollbackReportedOnce == service = "update" => Update!RollbackReportedOnce

\* A change whose hint was accepted is still known when no scan has seen it, in the
\* watcher of the adapters and in the service.
AcceptedHintsStayKnown ==
  /\ service = "watch" => Watcher!AcceptedHintsStayKnown
  /\ service = "adapter" => Coalesced!PushedHintsAreHandedOut

\* One directory is one project, one name is one view.
ListsAreKeyed == service = "projects" => Project!ListsAreKeyed

\* A shared configuration is written into the registered directory of its project.
ConfigsAreWrittenAtHome == [][service = "projects" => Project!WrittenAtHome]_projects

\* Of the conflicts of an assembly only an accepted finding is deployed.
OnlyAcceptedConflictsAreDeployed ==
  service = "assembly" => Assembler!OnlyAcceptedConflictsAreDeployed

\* A restore leaves what it was not told to replace, the index portable/skills.json apart.
UndecidedContentSurvives == service = "backup" => BackupFiles!UndecidedContentSurvives

\* Only a package whose files are those of its manifest is restored.
OnlyRecordedContentIsRestored ==
  [][service = "backup" => BackupFiles!RestoresWhatWasRecorded]_backup

\* Retention leaves a package.
RetentionKeepsABackup == [][service = "backup" => BackupFiles!KeepsANewerOne]_backup

\* A passed check has ended, and its findings of high risk were confirmed.
PassedIsEarned == service = "checks" => Checker!PassedIsEarned

\* Between two fetches only the answered directory is left.
OnlyTheAnswerStays == service = "acquire" => Fetcher!OnlyTheAnswerStays

\* A changed call policy can be taken back to what it was before the first change, unless it
\* was changed between the two halves of a restore.
FirstPolicyIsRemembered == service = "catalog" => Policy!FirstPolicyIsRemembered

\* What the user was answered is in the database file, or will be when it is opened.
AnsweredDataIsOnDisk == service = "opening" => Opener!AnsweredDataIsOnDisk

\* A skill that is reported without complaint has the fingerprint of what is on disk.
FingerprintsAreOfTheDisk == service = "scanner" => Scan!FingerprintsAreOfTheDisk

\* An original is removed where the user may write, and with an intact copy in the library.
TakenOverIsOursAndKept == service = "imports" => Importer!TakenOverIsOursAndKept

\* A plan is complete, and stands on nothing that another skill or program owns.
PlansAreSafe == service = "planner" => Plans!PlansAreSafe

=============================================================================
