SPECIFICATION Spec
CONSTANTS
  Connections = {c1, c2}
  Worker <- SameWorker
  Sent = {"hello", "register", "fence", "advance", "query"}
  MaxSessions = 2
  FenceOnSessionLoss = TRUE
  SaveMayFail = FALSE
  AnswersRead = FALSE
INVARIANTS
  TypeOK
  NoOrphans
PROPERTIES
  LostWorkersAreFenced
CHECK_DEADLOCK FALSE
