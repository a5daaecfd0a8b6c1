--------------------------- MODULE Services_proofs ---------------------------
(***************************************************************************)
(* What holds of the components in every behaviour of the specification,   *)
(* for every value of the constants that meets the assumptions of          *)
(* Services.  The invariants of the components are those of                *)
(* Background_proofs and Commands_proofs; here they are joined, each for   *)
(* the behaviours that are about its component.                            *)
(***************************************************************************)
EXTENDS Background_proofs, Commands_proofs

services == <<first, second, third>>

BackgroundInv ==
  /\ service = "update" => UpdateInv /\ UpdateReportedInv
  /\ service = "watch" => WatchInv
  /\ service = "adapter" => CoalescedInv
  /\ service = "opening" => OpenerInv
  /\ service = "acquire" => FetcherInv
  /\ service = "scanner" => ScanInv

CommandsInv ==
  /\ service = "projects" => ProjectInv
  /\ service = "assembly" => AssemblyInv
  /\ service = "backup" => BackupInv
  /\ service = "checks" => CheckInv
  /\ service = "catalog" => PolicyInv
  /\ service = "imports" => ImportInv
  /\ service = "planner" => PlannerInv

ServicesInv == BackgroundInv /\ CommandsInv

\* A step is a step of the component that the behaviour is about, and leaves the choice of
\* that component alone.
LEMMA StepOfTheService ==
  ASSUME [Next]_services
  PROVE  /\ service' = service
         /\ service = "update" => [Update!Next]_Update!vars
         /\ service = "watch" => [Watcher!Next]_watch
         /\ service = "adapter" => [Coalesced!Next]_adapter
         /\ service = "projects" => [Project!Next]_projects
         /\ service = "assembly" => [Assembler!Next]_assembly
         /\ service = "backup" => [BackupFiles!Next]_backup
         /\ service = "checks" => [Checker!Next]_checks
         /\ service = "acquire" => [Fetcher!Next]_acquire
         /\ service = "catalog" => [Policy!Next]_catalog
         /\ service = "opening" => [Opener!Next]_opening
         /\ service = "scanner" => [Scan!Next]_scanner
         /\ service = "imports" => [Importer!Next]_imports
         /\ service = "planner" => [Plans!Next]_planner
<1>1. CASE UNCHANGED services
  <2>1. /\ service' = service /\ UNCHANGED update
        /\ UNCHANGED <<watch, adapter, projects, assembly, backup, checks, acquire, catalog,
                       opening, scanner, imports, planner>>
    BY <1>1 DEF services, first, second, third
  <2>2. UNCHANGED Update!vars
    BY <2>1 DEF update, Update!vars, Update!startup, Update!records
  <2>3. QED
    BY <2>1, <2>2
<1>2. CASE Updates
  BY <1>2 DEF Updates, second
<1>3. CASE Watches
  BY <1>3 DEF Watches, second
<1>4. CASE Coalesces
  BY <1>4 DEF Coalesces, second
<1>5. CASE Registers
  BY <1>5 DEF Registers, second
<1>6. CASE Assembles
  BY <1>6 DEF Assembles, second
<1>7. CASE Backs
  BY <1>7 DEF Backs, first
<1>8. CASE Checking
  BY <1>8 DEF Checking, first
<1>9. CASE Acquires
  BY <1>9 DEF Acquires, first
<1>10. CASE Catalogs
  BY <1>10 DEF Catalogs, first
<1>11. CASE Opens
  BY <1>11 DEF Opens, first
<1>12. CASE Scans
  BY <1>12 DEF Scans, first
<1>13. CASE Imports
  BY <1>13 DEF Imports, first
<1>14. CASE Planning
  BY <1>14 DEF Planning, first
<1>15. QED
  BY <1>1, <1>2, <1>3, <1>4, <1>5, <1>6, <1>7, <1>8, <1>9, <1>10, <1>11, <1>12, <1>13, <1>14
     DEF Next

\* The invariant holds at the start.
LEMMA ServicesInitInv == Init => ServicesInv
<1>1. Init => BackgroundInv
  BY UpdateInitInv, UpdateReportedOnce, WatchInitInv, CoalescedInitInv, OpenerInitInv,
     FetcherInitInv, ScanInitInv
     DEF Init, BackgroundInv
<1>2. Init => CommandsInv
  BY ProjectInitInv, AssemblyInitInv, BackupInitInv, CheckInitInv, PolicyInitInv,
     ImportInitInv, PlannerInitInv
     DEF Init, CommandsInv
<1>3. QED
  BY <1>1, <1>2 DEF ServicesInv

\* Every step keeps it.
LEMMA ServicesStepInv == ServicesInv /\ [Next]_services => ServicesInv'
<1> SUFFICES ASSUME ServicesInv, [Next]_services PROVE ServicesInv'
  OBVIOUS
<1>1. service' = service
  BY StepOfTheService
<1>2. BackgroundInv'
  <2>1. service = "update" => (UpdateInv /\ UpdateReportedInv)'
    BY StepOfTheService, UpdateStepInv, UpdateReportedStep DEF ServicesInv, BackgroundInv
  <2>2. service = "watch" => WatchInv'
    BY StepOfTheService, WatchStepInv DEF ServicesInv, BackgroundInv
  <2>3. service = "adapter" => CoalescedInv'
    BY StepOfTheService, CoalescedStepInv DEF ServicesInv, BackgroundInv
  <2>4. service = "opening" => OpenerInv'
    BY StepOfTheService, OpenerStepInv DEF ServicesInv, BackgroundInv
  <2>5. service = "acquire" => FetcherInv'
    BY StepOfTheService, FetcherStepInv DEF ServicesInv, BackgroundInv
  <2>6. service = "scanner" => ScanInv'
    BY StepOfTheService, ScanStepInv DEF ServicesInv, BackgroundInv
  <2>7. QED
    BY <1>1, <2>1, <2>2, <2>3, <2>4, <2>5, <2>6 DEF BackgroundInv
<1>3. CommandsInv'
  <2>1. service = "projects" => ProjectInv'
    BY StepOfTheService, ProjectStepInv DEF ServicesInv, CommandsInv
  <2>2. service = "assembly" => AssemblyInv'
    BY StepOfTheService, AssemblyStepInv DEF ServicesInv, CommandsInv
  <2>3. service = "backup" => BackupInv'
    BY StepOfTheService, BackupStepInv DEF ServicesInv, CommandsInv
  <2>4. service = "checks" => CheckInv'
    BY StepOfTheService, CheckStepInv DEF ServicesInv, CommandsInv
  <2>5. service = "catalog" => PolicyInv'
    BY StepOfTheService, PolicyStepInv DEF ServicesInv, CommandsInv
  <2>6. service = "imports" => ImportInv'
    BY StepOfTheService, ImportStepInv DEF ServicesInv, CommandsInv
  <2>7. service = "planner" => PlannerInv'
    BY StepOfTheService, PlannerStepInv DEF ServicesInv, CommandsInv
  <2>8. QED
    BY <1>1, <2>1, <2>2, <2>3, <2>4, <2>5, <2>6, <2>7 DEF CommandsInv
<1>4. QED
  BY <1>2, <1>3 DEF ServicesInv

\* Of every component, in every behaviour, its invariant holds.
THEOREM ServicesKeepTheirInvariants == Spec => []ServicesInv
<1>1. Spec => Init /\ [][Next]_services
  BY DEF Spec, services
<1>2. QED
  BY <1>1, ServicesInitInv, ServicesStepInv, PTL

-----------------------------------------------------------------------------
(* The invariants that the runs check                                      *)

\* The state of every component has its type, whatever its component does.
THEOREM TypesAreKept == Spec => []EveryTypeOK
<1>1. ServicesInv => EveryTypeOK
  BY DEF ServicesInv, BackgroundInv, CommandsInv, UpdateInv, WatchInv, CoalescedInv, OpenerInv,
     FetcherInv, ScanInv, ProjectInv, AssemblyInv, BackupInv, CheckInv, PolicyInv, ImportInv,
     PlannerInv, EveryTypeOK
<1>2. QED
  BY <1>1, ServicesKeepTheirInvariants, PTL

\* The platform installer is given the bytes of the prepared package (install of the updater).
THEOREM InstallersAreGivenWholePackages == Spec => []PackageIsWhole
<1>1. ServicesInv => PackageIsWhole
  BY UpdateInvIsWhole DEF ServicesInv, BackgroundInv, PackageIsWhole
<1>2. QED
  BY <1>1, ServicesKeepTheirInvariants, PTL

\* Whatever calls overlap and however the program ends, what is offered is newer than the
\* program and shown with its own manifest.
THEOREM OffersStayConsistent == Spec => []OffersAreConsistent
<1>1. ServicesInv => OffersAreConsistent
  BY UpdateInvIsWhole DEF ServicesInv, BackgroundInv, OffersAreConsistent
<1>2. QED
  BY <1>1, ServicesKeepTheirInvariants, PTL

\* Of a prepared update that did not come up the start of the program tells at most once.
THEOREM RollbacksAreReportedOnce == Spec => []RollbackReportedOnce
<1>1. ServicesInv => RollbackReportedOnce
  BY UpdateReportedOnce DEF ServicesInv, BackgroundInv, RollbackReportedOnce
<1>2. QED
  BY <1>1, ServicesKeepTheirInvariants, PTL

\* No accepted hint is lost by coalescing, by a failed scan or by an aborted job: until a scan
\* has seen the skill, a queue or a job still names it, or everything is compared.
THEOREM HintsStayKnown == Spec => []AcceptedHintsStayKnown
<1>1. ServicesInv => AcceptedHintsStayKnown
  BY WatchKnownIsAccepted, CoalescedKnownIsHandedOut DEF ServicesInv, BackgroundInv, WatchInv, CoalescedInv, AcceptedHintsStayKnown
<1>2. QED
  BY <1>1, ServicesKeepTheirInvariants, PTL

\* No interleaving of the processes that save projects and views gives one directory two
\* projects or one name two views.
THEOREM ListsStayKeyed == Spec => []ListsAreKeyed
<1>1. ServicesInv => ListsAreKeyed
  BY ProjectInvIsKeyed DEF ServicesInv, CommandsInv, ListsAreKeyed
<1>2. QED
  BY <1>1, ServicesKeepTheirInvariants, PTL

\* A refused commit of an assembly has deployed nothing, and of the conflicts only a finding
\* that was accepted is ever deployed.
THEOREM ConflictsAreAccepted == Spec => []OnlyAcceptedConflictsAreDeployed
<1>1. ServicesInv => OnlyAcceptedConflictsAreDeployed
  BY DEF ServicesInv, CommandsInv, AssemblyInv, OnlyAcceptedConflictsAreDeployed
<1>2. QED
  BY <1>1, ServicesKeepTheirInvariants, PTL

\* A restore, run to its end, cut off or rolled back, leaves the content that it was not told
\* to replace, all but the index portable/skills.json, which it writes over without asking.
THEOREM RestoresLeaveTheUndecided == Spec => []UndecidedContentSurvives
<1>1. ServicesInv => UndecidedContentSurvives
  BY DEF ServicesInv, CommandsInv, BackupInv, UndecidedContentSurvives
<1>2. QED
  BY <1>1, ServicesKeepTheirInvariants, PTL

\* A check that counts as passed has ended without a failure, and the user confirmed each of
\* its findings of high risk.
THEOREM ChecksAreEarned == Spec => []PassedIsEarned
<1>1. ServicesInv => PassedIsEarned
  BY CheckInvIsEarned DEF ServicesInv, CommandsInv, PassedIsEarned
<1>2. QED
  BY <1>1, ServicesKeepTheirInvariants, PTL

\* What a fetch answers keeps to the limits, and when no fetch and no task runs its directory
\* is the only one that is left.
THEOREM NothingElseStays == Spec => []OnlyTheAnswerStays
<1>1. ServicesInv => OnlyTheAnswerStays
  BY FetcherInvStays DEF ServicesInv, BackgroundInv, OnlyTheAnswerStays
<1>2. QED
  BY <1>1, ServicesKeepTheirInvariants, PTL

\* The policy a skill had before it was first changed is remembered until it is restored, of
\* every skill that was not changed between the two halves of a restore.
THEOREM PoliciesCanBeTakenBack == Spec => []FirstPolicyIsRemembered
<1>1. ServicesInv => FirstPolicyIsRemembered
  BY PolicyInvRemembers DEF ServicesInv, CommandsInv, FirstPolicyIsRemembered
<1>2. QED
  BY <1>1, ServicesKeepTheirInvariants, PTL

\* What was answered as saved is in the database file or in a copy beside it, through failed
\* starts and crashes between any two steps, unless a copy was taken beside a journal.
THEOREM AnswersAreDurable == Spec => []AnsweredDataIsOnDisk
<1>1. ServicesInv => AnsweredDataIsOnDisk
  BY DEF ServicesInv, BackgroundInv, OpenerInv, AnsweredDataIsOnDisk
<1>2. QED
  BY <1>1, ServicesKeepTheirInvariants, PTL

\* A skill reported without complaint, none of whose files were written meanwhile, has the
\* fingerprint of what is on disk, however stale the cache and the snapshot are.
THEOREM FingerprintsFollowTheDisk == Spec => []FingerprintsAreOfTheDisk
<1>1. ServicesInv => FingerprintsAreOfTheDisk
  BY ScanInvIsOfTheDisk DEF ServicesInv, BackgroundInv, FingerprintsAreOfTheDisk
<1>2. QED
  BY <1>1, ServicesKeepTheirInvariants, PTL

\* A take-over removes an original only where the user may write and when an intact copy of
\* it is in the library.
THEOREM OriginalsAreKept == Spec => []TakenOverIsOursAndKept
<1>1. ServicesInv => TakenOverIsOursAndKept
  BY ImportInvIsKept DEF ServicesInv, CommandsInv, TakenOverIsOursAndKept
<1>2. QED
  BY <1>1, ServicesKeepTheirInvariants, PTL

\* A plan that the planner answers is complete and stands on nothing that another skill or
\* program owns.
THEOREM PlansStaySafe == Spec => []PlansAreSafe
<1>1. ServicesInv => PlansAreSafe
  BY DEF ServicesInv, CommandsInv, PlannerInv, PlansAreSafe
<1>2. QED
  BY <1>1, ServicesKeepTheirInvariants, PTL

-----------------------------------------------------------------------------
(* The action properties that the runs check                               *)

\* No process writes a shared configuration elsewhere than into the directory that its
\* project is registered with at that moment.
THEOREM ConfigsGoHome == Spec => ConfigsAreWrittenAtHome
<1>1. ServicesInv /\ [Next]_services => [service = "projects" => Project!WrittenAtHome]_projects
  <2> SUFFICES ASSUME ServicesInv, [Next]_services, service = "projects" PROVE Project!WrittenAtHome
    OBVIOUS
  <2>1. QED
    BY StepOfTheService, ProjectWritesAtHome DEF ServicesInv, CommandsInv
<1>2. Spec => [][Next]_services
  BY DEF Spec, services
<1>3. QED
  BY <1>1, <1>2, ServicesKeepTheirInvariants, PTL DEF ConfigsAreWrittenAtHome

\* A restore brings in only content that the manifest of a package names, and sensitive
\* content only from a package that is marked.
THEOREM RestoresFollowTheManifest == Spec => OnlyRecordedContentIsRestored
<1>1. ServicesInv /\ [Next]_services => [service = "backup" => BackupFiles!RestoresWhatWasRecorded]_backup
  <2> SUFFICES ASSUME ServicesInv, [Next]_services, service = "backup" PROVE BackupFiles!RestoresWhatWasRecorded
    OBVIOUS
  <2>1. QED
    BY StepOfTheService, RestoresRecordedContent DEF ServicesInv, CommandsInv
<1>2. Spec => [][Next]_services
  BY DEF Spec, services
<1>3. QED
  BY <1>1, <1>2, ServicesKeepTheirInvariants, PTL DEF OnlyRecordedContentIsRestored

\* Retention removes a valid package only while a newer valid one is there.
THEOREM RetentionLeavesABackup == Spec => RetentionKeepsABackup
<1>1. ServicesInv /\ [Next]_services => [service = "backup" => BackupFiles!KeepsANewerOne]_backup
  <2> SUFFICES ASSUME ServicesInv, [Next]_services, service = "backup" PROVE BackupFiles!KeepsANewerOne
    OBVIOUS
  <2>1. QED
    BY StepOfTheService, RetentionKeepsANewerOne DEF ServicesInv, CommandsInv
<1>2. Spec => [][Next]_services
  BY DEF Spec, services
<1>3. QED
  BY <1>1, <1>2, ServicesKeepTheirInvariants, PTL DEF RetentionKeepsABackup
=============================================================================
