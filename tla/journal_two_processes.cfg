CONSTANTS
  Ids = {op}
  PlanIds = {}
  Callers = {c1, c2}
  Handles = {h1, h2}
  Journals = {j1, j2}
  HandleOf <- OwnHandle
  Fingerprints = {f1, f2}
  InitialFact = f0
  NoCaller = NoCaller
  NoId = NoId
  NoInverse = NoInverse
  UndoFingerprint = undo
  Rereads = 1
  Disturbances = {"crash", "abandon", "resolve", "health"}
SPECIFICATION Spec
SYMMETRY CallersAreAlike
INVARIANTS
  AtMostOneEffect
