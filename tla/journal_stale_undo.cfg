CONSTANTS
  Ids = {op1, op2}
  PlanIds = {plan}
  Callers = {c1, c2}
  Handles = {h}
  Journals = {j}
  HandleOf <- SharedHandle
  Fingerprints = {f1, f2}
  InitialFact = f0
  NoCaller = NoCaller
  NoId = NoId
  NoInverse = NoInverse
  UndoFingerprint = undo
  Rereads = 1
  Disturbances = {}
SPECIFICATION Spec
SYMMETRY CallersAreAlike
INVARIANTS
  UndoFactsAreFresh
