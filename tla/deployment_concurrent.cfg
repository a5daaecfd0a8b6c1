CONSTANTS
  s1 = s1
  s2 = s2
  x1 = x1
  x2 = x2
  p1 = p1
  p2 = p2
  Places = {p1}
  Skills = {s1, s2}
  Contents = {x1, x2}
  Callers = {c1, c2}
  Deployments = {d1, d2}
  Operations = {o1, o2, o3}
  TargetSets <- OneTarget
  Modes = {"copy"}
  Partial = Partial
  Stored <- TwoSkills
  RecordedVersions <- EveryVersion
  RegisteredPlaces = {p1}
  Requests = {"deploy", "undeploy"}
  Disturbances = {}
  None = None
SPECIFICATION FairSpec
CHECK_DEADLOCK FALSE
INVARIANTS
  ActiveRelationsAreBacked
PROPERTIES
  DeployLeavesPresentTreesAlone
  EveryCommandAnswers
