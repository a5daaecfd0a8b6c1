SPECIFICATION Spec
CONSTANTS
  None = None
  Users = {a1, a2}
  Jobs = {b1, b2}
  Skills = {"s"}
  Twins = {a1, a2}
  Releases = {1, 2, 3}
  Signed = {1, 2}
  Garbage = Garbage
  HintKinds <- MCKinds
  ProjectIds = {b1, b2}
  Views = {"v1", "v2"}
  Names = {"n"}
  Paths = {"p1", "p2"}
  ProjectDirs = {"d1", "d2"}
  Size = 2
  Payloads = {"clean", "secret"}
  Sensitive = {"secret"}
  Backups = {1, 2}
  MaxAside = 1
  Places = {"p1", "p2"}
  HighRisk = {"p1"}
  MaxGeneration = 1
  MaxFiles = 2
  MaxEntries = 5
  MaxExpanded = 3
  MaxDownload = 4
  MaxRedirects = 1
  Policies = {"auto", "manual", "disabled"}
  Default = "auto"
  PolicyChanges = {a1, a2}
  PolicyRestores = {"r"}
  Latest = 2
  MaxWrites = 2
  MaxCopies = 3
  ScanTargets = {a1, a2}
  ScanDirs = {"d"}
  ScanFiles = {"SKILL.md", "f"}
  Below <- MCBelow
  Tree <- MCTree
  Marker <- MCMarker
  MaxEdits = 3
  Depths = {1, 2}
  MaxRoots = 2
  Existing = {1}
  Targets = {1, 2}
  Dirs = {a1, a2}
  Capabilities <- MCCapabilities
SYMMETRY Symmetry
INVARIANTS
  EveryTypeOK
  PackageIsWhole
  OffersAreConsistent
  RollbackReportedOnce
  AcceptedHintsStayKnown
  ListsAreKeyed
  OnlyAcceptedConflictsAreDeployed
  UndecidedContentSurvives
  PassedIsEarned
  OnlyTheAnswerStays
  FirstPolicyIsRemembered
  AnsweredDataIsOnDisk
  FingerprintsAreOfTheDisk
  TakenOverIsOursAndKept
  PlansAreSafe
PROPERTIES
  ConfigsAreWrittenAtHome
  OnlyRecordedContentIsRestored
  RetentionKeepsABackup
CHECK_DEADLOCK FALSE
