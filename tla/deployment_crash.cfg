CONSTANTS
  s1 = s1
  s2 = s2
  x1 = x1
  x2 = x2
  p1 = p1
  p2 = p2
  Places = {p1}
  Skills = {s1}
  Contents = {x1, x2}
  Callers = {c1}
  Deployments = {d1}
  Operations = {o1, o2}
  TargetSets <- OneTarget
  Modes = {"copy"}
  Partial = Partial
  Stored <- OneVersion
  RecordedVersions <- EveryVersion
  RegisteredPlaces = {p1}
  Requests = {"deploy"}
  Disturbances = {"crash"}
  None = None
SPECIFICATION Spec
CHECK_DEADLOCK FALSE
PROPERTIES
  RecordedTreeIsItsVersion
