SPECIFICATION Spec
CONSTANTS
  MaxString = 256
  MaxParticipants = 2
  MaxActiveWorkers = 2
  MaxRecentFences = 2
  MaxGrants = 2
  MaxScopes = 2
  MaxFramePayload = 1800
  MaxRequestSize = 900
  MaxAsked = 3
  Questions = {"Hello", "RegisterParticipant", "FenceWorker", "ValidateAuthority", "AdvanceEpoch", "EpochStateRequest", "RevokeAuthority", "QueryParticipant", "SnapshotRequest", "ExplainRequest", "RetireParticipant", "Shutdown"}
  MayAlter = TRUE
CHECK_DEADLOCK FALSE
INVARIANTS
  HeardWasAsked
  AnswersPair
  Blame
  NothingRefused
  NobodyWaitsForNobody
