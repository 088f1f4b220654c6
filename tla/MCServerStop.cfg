SPECIFICATION Spec
CONSTANTS
  Connections = {c1, c2}
  Worker <- SharedBoot
  Sent = {"hello", "register", "shutdown", "advance", "unexpected"}
  MaxSessions = 1
  FenceOnSessionLoss = TRUE
  SaveMayFail = TRUE
  AnswersRead = TRUE
INVARIANTS
  
  StoppedClean
PROPERTIES
  ShutdownCompletes
CHECK_DEADLOCK FALSE
