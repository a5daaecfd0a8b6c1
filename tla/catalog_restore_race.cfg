SPECIFICATION Spec
CONSTANTS
  Skills = {"s"}
  Policies = {"auto", "manual", "disabled"}
  Default = "auto"
  Plans = {a1, a2}
  Commits = {b1}
  Restores = {c1}
  None = None
INVARIANT RestoresGoBackToFirst
CHECK_DEADLOCK FALSE
