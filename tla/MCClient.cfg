SPECIFICATION Spec
CONSTANTS
  Threads = {t1, t2}
  MaxConnections = 2
  MaxCalls = 6
INVARIANTS
  TypeOK
  AnswersMatch
  HelloFirst
PROPERTIES
  WaitEnds
CHECK_DEADLOCK FALSE
