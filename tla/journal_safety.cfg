CONSTANTS
  Ids = {op}
  PlanIds = {plan}
  Callers = {c1, c2}
  Handles = {h}
  Journals = {j}
  HandleOf <- SharedHandle
  Fingerprints = {f1}
  InitialFact = f0
  NoCaller = NoCaller
  NoId = NoId
  NoInverse = NoInverse
  UndoFingerprint = undo
  Rereads = 1
  Disturbances = {"crash", "abandon", "resolve", "health", "edit"}
SPECIFICATION Spec
SYMMETRY CallersAreAlike
INVARIANTS
  TypeOK
  OneWriterPerHandle
  AnsweredStaysCommitted
  CancelledNeverAnswers
  UndoPlanAppliesOnce
PROPERTIES
  ImplementsContract
