CONSTANTS
  a = a
  b = b
  s1 = s1
  s2 = s2
  Skills = {s1, s2}
  Trees <- TwoTrees
  Sources = {u1}
  Plans = {o1}
  Callers = {c1}
  Requests = {"create", "import", "choose", "save", "markdown", "update", "relink", "rename", "delete"}
  Disturbances = {"upstream", "crash"}
  Failing <- RolledBack
  MaxFaults = 1
  None = None
  Absent = Absent
SPECIFICATION Spec
CHECK_DEADLOCK FALSE
CONSTRAINTS
  OneHalfDone
  PlansWaitAlone
SYMMETRY SkillsAreAlike
INVARIANTS
  TypeOK
  VersionsAreWhole
  CurrentVersionExists
PROPERTIES
  FailedCommandsRollBack
  
  UpdatesKeepLocalEdits
